---------------------------- MODULE Spec2Model ----------------------------
(***************************************************************************)
(* A model of the rust-magic rules engine: the turn / step / priority      *)
(* machine (turn.rs), the action validation and payment framework          *)
(* (action.rs), the waiting stack and the resolve protocol (abilities.rs), *)
(* the card zones (card.rs), the trigger dispatch (events.rs) and the mana *)
(* arithmetic (mana.rs).                                                   *)
(*                                                                         *)
(* The whole Game struct is one record; every handler of the engine is an  *)
(* operator from a game record (and its arguments) to the game record the  *)
(* call leaves behind, and every action of the specification is one call   *)
(* of one public function by the driver.  A call that panics (the process  *)
(* aborts) has no successor state.                                         *)
(***************************************************************************)
EXTENDS Integers, Sequences, FiniteSets, TLC

VARIABLES
    game,       \* the Game struct
    last,       \* the last call of the driver and the value it returned
    nops,       \* the number of calls made
    passers     \* history: the holders who called pass_priority since the priority
                \* field was last written by another function

vars == <<game, last, nops, passers>>

-----------------------------------------------------------------------------
(* Bounds of the model *)

\* the number of calls the driver makes in one behaviour
MaxOps == 4

-----------------------------------------------------------------------------
(* Program constants *)

U8Max == 255
DefaultPlayerLife == 20
DefaultLandLimit == 1

-----------------------------------------------------------------------------
(* Small helpers on sequences *)

SeqToSet(s) == {s[i] : i \in 1..Len(s)}

Last(s) == s[Len(s)]

Front(s) == SubSeq(s, 1, Len(s) - 1)

RemoveFromSeq(s, x) == SelectSeq(s, LAMBDA y : y # x)

Min(a, b) == IF a < b THEN a ELSE b

-----------------------------------------------------------------------------
(* mana.rs *)

Colors == {"white", "red", "green", "blue", "black", "colorless", "any"}

\* Mana::new
ManaNew == [c \in Colors |-> 0]

\* the order in which Mana::iter lists the colours; it never lists "any"
IterOrder == <<"white", "red", "green", "blue", "black", "colorless">>

\* Mana::iter: the colours with a positive amount, in IterOrder
ManaIter(m) == SelectSeq(IterOrder, LAMBDA c : m[c] > 0)

\* Mana::has
ManaHas(m, color) == m[color] > 0

NoPick == [ok |-> FALSE, pick |-> ManaNew]

RECURSIVE pick_from(_, _, _, _)
pick_from(self, it, remainder, pick) ==
    IF it = <<>> THEN NoPick
    ELSE LET color == Head(it)
             current == self[color]
         IN IF current > remainder
            THEN [ok |-> TRUE, pick |-> [pick EXCEPT ![color] = remainder]]
            ELSE IF remainder - current = 0
                 THEN [ok |-> TRUE, pick |-> [pick EXCEPT ![color] = current]]
                 ELSE pick_from(self, Tail(it), remainder - current,
                                [pick EXCEPT ![color] = current])

\* Mana::pick_any
pick_any(self, amount) == pick_from(self, ManaIter(self), amount, ManaNew)

RECURSIVE enough_from(_, _, _)
enough_from(remainder, mana, it) ==
    IF it = <<>> THEN TRUE
    ELSE LET color == Head(it)
             amount == mana[color]
         IN IF color \in {"colorless", "any"}
            THEN LET colorless == remainder["colorless"]
                 IN IF colorless >= amount
                    THEN enough_from([remainder EXCEPT !["colorless"] = colorless - amount],
                                     mana, Tail(it))
                    ELSE pick_any([remainder EXCEPT !["colorless"] = 0],
                                  amount - colorless).ok
            ELSE IF remainder[color] >= amount
                 THEN enough_from([remainder EXCEPT ![color] = @ - amount], mana, Tail(it))
                 ELSE FALSE

\* Mana::enough: is self enough to pay the cost mana
enough(self, mana) == enough_from(self, mana, ManaIter(mana))

\* AddAssign for Mana: only the colours Mana::iter lists, saturating at u8::MAX
ManaAdd(self, rhs) ==
    [c \in Colors |-> IF c \in SeqToSet(ManaIter(rhs)) THEN Min(U8Max, self[c] + rhs[c])
                      ELSE self[c]]

\* SubAssign for Mana: only the colours Mana::iter lists, saturating at 0
ManaSub(self, rhs) ==
    [c \in Colors |-> IF c \in SeqToSet(ManaIter(rhs))
                      THEN (IF self[c] >= rhs[c] THEN self[c] - rhs[c] ELSE 0)
                      ELSE self[c]]

Digits == <<"0", "1", "2", "3", "4", "5", "6", "7", "8", "9">>

DigitValue(ch) == CHOOSE d \in 0..9 : Digits[d + 1] = ch

ColorCode(ch) ==
    CASE ch = "R" -> "red"
      [] ch = "W" -> "white"
      [] ch = "U" -> "blue"
      [] ch = "B" -> "black"
      [] ch = "G" -> "green"

\* the length of the longest prefix of s whose characters are all in the set S
RECURSIVE PrefixLen(_, _)
PrefixLen(s, S) ==
    IF s = <<>> THEN 0
    ELSE IF Head(s) \notin S THEN 0 ELSE 1 + PrefixLen(Tail(s), S)

RECURSIVE ParseNumber(_, _)
ParseNumber(s, acc) ==
    IF s = <<>> THEN acc ELSE ParseNumber(Tail(s), 10 * acc + DigitValue(Head(s)))

RECURSIVE CountColored(_, _)
CountColored(s, mana) ==
    IF s = <<>> THEN mana
    ELSE CountColored(Tail(s), [mana EXCEPT ![ColorCode(Head(s))] = @ + 1])

\* From<&str> for Mana: the regex (\d*)([*]*)([WUBRG]*) matched at the start of
\* the string (a string is a sequence of one-character strings)
ManaFrom(s) ==
    LET nd == PrefixLen(s, SeqToSet(Digits))
        rest1 == SubSeq(s, nd + 1, Len(s))
        na == PrefixLen(rest1, {"*"})
        rest2 == SubSeq(rest1, na + 1, Len(rest1))
        nc == PrefixLen(rest2, {"W", "U", "B", "R", "G"})
        base == [ManaNew EXCEPT !["any"] = na,
                                !["colorless"] = IF nd > 0 /\ ParseNumber(SubSeq(s, 1, nd), 0) <= U8Max
                                                 THEN ParseNumber(SubSeq(s, 1, nd), 0) ELSE 0]
    IN CountColored(SubSeq(rest2, 1, nc), base)

-----------------------------------------------------------------------------
(* Option values: None is the empty sequence, Some(x) the sequence <<x>> *)

None == <<>>

Some(x) == <<x>>

IsSome(o) == o # <<>>

Unwrap(o) == o[1]

-----------------------------------------------------------------------------
(* abilities.rs: the closed vocabularies Cost, Target, Effect; action.rs: Choice *)

CostNone == [k |-> "None"]
CostMana(s) == [k |-> "Mana", s |-> s]
CostTap(t) == [k |-> "Tap", t |-> t]
CostSacrifice(t) == [k |-> "Sacrifice", t |-> t]
CostAnd(costs) == [k |-> "And", costs |-> costs]

TargetNone == [k |-> "None"]
TargetSource == [k |-> "Source"]
TargetOwner == [k |-> "Owner"]
TargetPlayer == [k |-> "Player"]
TargetCreature == [k |-> "Creature"]
TargetAnyOf(opts) == [k |-> "AnyOf", opts |-> opts]

EffectNone == [k |-> "None"]
EffectMana(m) == [k |-> "Mana", mana |-> m]
EffectDamage(n) == [k |-> "Damage", n |-> n]
EffectDiscard(n) == [k |-> "Discard", n |-> n]
EffectDraw(n) == [k |-> "Draw", n |-> n]
EffectAnd(effects) == [k |-> "And", effects |-> effects]

ChoiceNone == [k |-> "None"]
ChoiceMana(m) == [k |-> "Mana", mana |-> m]
ChoicePlayer(p) == [k |-> "Player", id |-> p]
ChoiceCard(c) == [k |-> "Card", id |-> c]
ChoiceAnd(choices) == [k |-> "And", choices |-> choices]

ConditionTap(t) == [k |-> "Tap", t |-> t]
ConditionUntap(t) == [k |-> "Untap", t |-> t]
ConditionDraw == [k |-> "Draw"]
ConditionPhase(step) == [k |-> "Phase", step |-> step]

\* Effect::get_required_choice
RECURSIVE get_required_choice(_)
get_required_choice(effect) ==
    CASE effect.k = "Mana" ->
            IF ManaHas(effect.mana, "any") THEN ChoiceMana(effect.mana) ELSE ChoiceNone
      [] effect.k = "Discard" -> ChoiceAnd([i \in 1..effect.n |-> ChoiceCard(0)])
      [] effect.k = "And" ->
            ChoiceAnd([i \in 1..Len(effect.effects) |-> get_required_choice(effect.effects[i])])
      [] OTHER -> ChoiceNone

-----------------------------------------------------------------------------
(* The players and the cards of the model *)

Players == {1, 2}

\* Game::get_next_player: the player after player_id in turn order
get_next_player(player_id) == IF player_id = 1 THEN 2 ELSE 1

CardIds == 1..7

City == 1

Forest == 2

Rod == 3

Rummage == 4

Bolt == 5

Island == 6

Swamp == 7

\* the creatures of the combat scenarios
Creatures == 8..25

Knight == 8

WallA == 9

WallB == 10

Trampler == 11

Goblin == 12

Striker == 13

Ogre == 14

Spirit == 15

Bear == 16

Sentry == 17

Cub == 18

Duelist == 19

Hawk == 20

Bat == 21

Spider == 22

Asp == 23

Giant == 24

Boar == 25

\* every card a game of the model may hold
Catalogue == CardIds \cup Creatures

NoPlay == None

\* the fields of a Card that no handler changes (Card::new_land, new_artifact,
\* new_sorcery, new_instant and the abilities pushed on them)
BlankCard(owner, kind) ==
    [owner_id |-> owner, kind |-> kind, cost |-> CostNone, play_ability |-> NoPlay,
     activated_abilities |-> <<>>, triggered_abilities |-> <<>>, static_abilities |-> {},
     power |-> 0, toughness |-> 0]

\* a land that taps for one mana of any colour and deals 1 damage to its owner
\* when it is tapped
CityDef ==
    [BlankCard(1, "Land") EXCEPT
        !.activated_abilities =
            <<[cost |-> CostTap(TargetSource), effect |-> EffectMana(ManaFrom(<<"*">>)),
               target |-> TargetNone]>>,
        !.triggered_abilities =
            <<[condition |-> ConditionTap(TargetSource), effect |-> EffectDamage(1),
               target |-> TargetOwner]>>]

\* a basic land that taps for one green mana
ForestDef ==
    [BlankCard(1, "Land") EXCEPT
        !.activated_abilities =
            <<[cost |-> CostTap(TargetSource), effect |-> EffectMana(ManaFrom(<<"G">>)),
               target |-> TargetNone]>>]

\* an artifact with "G, tap: 1 damage to a player"
RodDef ==
    [BlankCard(1, "Artifact") EXCEPT
        !.activated_abilities =
            <<[cost |-> CostAnd(<<CostMana(<<"G">>), CostTap(TargetSource)>>),
               effect |-> EffectDamage(1), target |-> TargetPlayer]>>]

\* a sorcery: discard a card, then draw a card
RummageDef ==
    [BlankCard(1, "Sorcery") EXCEPT
        !.cost = CostMana(<<"G">>),
        !.play_ability = Some([effect |-> EffectAnd(<<EffectDiscard(1), EffectDraw(1)>>),
                               target |-> TargetOwner])]

\* an instant of the other player: 1 damage to a player
BoltDef ==
    [BlankCard(2, "Instant") EXCEPT
        !.cost = CostMana(<<"G">>),
        !.play_ability = Some([effect |-> EffectDamage(1), target |-> TargetPlayer])]

\* two lands without abilities
IslandDef == BlankCard(1, "Land")

SwampDef == BlankCard(1, "Land")

\* Card::new_creature(owner, power, toughness) with static abilities inserted
Creature(owner, power, toughness, abilities) ==
    [BlankCard(owner, "Creature") EXCEPT
        !.power = power, !.toughness = toughness, !.static_abilities = abilities]

CardDef ==
    [c \in Catalogue |->
        CASE c = City -> CityDef
          [] c = Forest -> ForestDef
          [] c = Rod -> RodDef
          [] c = Rummage -> RummageDef
          [] c = Bolt -> BoltDef
          [] c = Island -> IslandDef
          [] c = Swamp -> SwampDef
          [] c = Knight -> Creature(1, 2, 2, {"DoubleStrike", "Haste"})
          [] c = WallA -> Creature(2, 1, 4, {})
          [] c = WallB -> Creature(2, 1, 4, {})
          [] c = Trampler -> Creature(1, 4, 3, {"Trample", "Haste"})
          [] c = Goblin -> Creature(2, 1, 1, {})
          [] c = Striker -> Creature(1, 2, 1, {"FirstStrike", "Haste"})
          [] c = Ogre -> Creature(2, 4, 2, {})
          [] c = Spirit -> Creature(1, 0, 4, {"Defender", "Haste"})
          [] c = Bear -> Creature(1, 2, 2, {"Haste"})
          [] c = Sentry -> Creature(2, 2, 1, {"FirstStrike"})
          [] c = Cub -> Creature(1, 1, 1, {})
          [] c = Duelist -> Creature(1, 2, 2, {"FirstStrike", "DoubleStrike", "Haste"})
          [] c = Hawk -> Creature(1, 1, 1, {"Flying", "Haste"})
          [] c = Bat -> Creature(2, 1, 1, {"Flying", "Haste"})
          [] c = Spider -> Creature(2, 1, 2, {"Reach"})
          [] c = Asp -> Creature(1, 1, 1, {"Deathtouch", "Haste"})
          [] c = Giant -> Creature(2, 8, 8, {})
          [] c = Boar -> Creature(1, 3, 3, {"Trample", "Haste"})]

\* the zone each card is put in before the first call
InitialZone ==
    [c \in CardIds |->
        CASE c = City -> "Battlefield"
          [] c = Forest -> "Hand"
          [] c = Rod -> "Battlefield"
          [] c = Rummage -> "Hand"
          [] c = Bolt -> "Hand"
          [] c = Island -> "Hand"
          [] c = Swamp -> "Library"]

-----------------------------------------------------------------------------
(* game.rs, card.rs: the game record and its accessors *)

\* the default of Value<bool> summoning_sickness: true for a creature
\* (Card::new_creature), replaced by false for a creature with Haste
\* (apply_static_abilities)
SickDefault(c) ==
    CardDef[c].kind = "Creature" /\ "Haste" \notin CardDef[c].static_abilities

\* CardState::reset: every Value back to its default
CardStateReset(c, zone) ==
    [zone |-> zone, tapped |-> FALSE, sick |-> SickDefault(c),
     toughness |-> CardDef[c].toughness]

\* Priority::new
PriorityNew(active_player) == [player_id |-> active_player, passes |-> {}]

\* Combat::new: the attackers in the order they were declared, the remaining
\* toughness of the blockers
CombatNew == [attackers |-> <<>>, blockers_toughness |-> <<>>]

\* Turn::new
TurnNew(player_id) ==
    [step |-> "Untap", priority |-> None, combat |-> CombatNew,
     active_player |-> player_id, lands_played |-> 0]

StatusPlay == [k |-> "Play"]

StatusLose(p) == [k |-> "Lose", id |-> p]

\* Game::get_card, Game::get_player: is there such a card, such a player
HasCard(g, card_id) == card_id \in DOMAIN g.cards

HasPlayer(g, player_id) == player_id \in Players

\* the cards of a player's battlefield, in the order change_zone keeps them
Battlefield(g, player_id) ==
    {c \in DOMAIN g.cards : CardDef[c].owner_id = player_id /\ g.cards[c].zone = "Battlefield"}

Hand(g, player_id) ==
    {c \in DOMAIN g.cards : CardDef[c].owner_id = player_id /\ g.cards[c].zone = "Hand"}

\* Action::new followed by set_required_cost, set_required_target and
\* set_required_effect; set_required_target fills the target choice of an
\* Owner target with the actor
ActionNew(player_id, card_id, cost, target, effect) ==
    [player_id |-> player_id, card_id |-> card_id,
     required |-> [cost |-> cost, target |-> target, effect |-> effect],
     choices |-> [cost |-> ChoiceNone,
                  target |-> IF target.k = "Owner" THEN ChoicePlayer(player_id) ELSE ChoiceNone,
                  effect |-> ChoiceNone]]

\* game.stack.push: the entry, numbered by the count of pushes so far
Push(g, effect, action, player_id, kind) ==
    [g EXCEPT !.stack = Append(@, [effect |-> effect, action |-> action,
                                   player_id |-> player_id, kind |-> kind,
                                   seq |-> g.pushes + 1]),
              !.pushes = @ + 1]

KindAbility == [k |-> "Ability"]

KindSpell(card_id) == [k |-> "Spell", id |-> card_id]

-----------------------------------------------------------------------------
(* events.rs *)

EventTap(source, owner, card) == [k |-> "Tap", source |-> source, owner |-> owner, card |-> card]
EventUntap(source, owner, card) == [k |-> "Untap", source |-> source, owner |-> owner, card |-> card]
EventDraw(owner, card) == [k |-> "Draw", source |-> None, owner |-> owner, card |-> card]
EventPhase(owner, phase) == [k |-> "Phase", owner |-> owner, phase |-> phase]

\* Event::meets
meets(event, condition) ==
    CASE event.k \in {"Tap", "Untap"} ->
            /\ condition.k = event.k
            /\ condition.t.k = "Source"
            /\ IsSome(event.source)
            /\ Unwrap(event.source) = event.card
      [] event.k = "Draw" -> condition.k = "Draw"
      [] event.k = "Phase" -> condition.k = "Phase" /\ condition.step = event.phase

\* the triggers of one card that meet the event, pushed in order
RECURSIVE push_triggers(_, _, _, _, _)
push_triggers(g, player_id, card_id, triggers, event) ==
    IF triggers = <<>> THEN g
    ELSE LET trigger == Head(triggers)
             action == ActionNew(player_id, card_id, CostNone, trigger.target, trigger.effect)
             g1 == IF meets(event, trigger.condition)
                   THEN Push(g, trigger.effect, action, player_id, KindAbility)
                   ELSE g
         IN push_triggers(g1, player_id, card_id, Tail(triggers), event)

\* the cards of a set, one after the other
RECURSIVE run_cards(_, _, _, _)
run_cards(g, player_id, cards, event) ==
    IF cards = {} THEN g
    ELSE LET card_id == CHOOSE c \in cards : \A d \in cards : c <= d
         IN run_cards(push_triggers(g, player_id, card_id,
                                    CardDef[card_id].triggered_abilities, event),
                      player_id, cards \ {card_id}, event)

\* run_player_triggers
run_player_triggers(g, player_id, event) ==
    IF ~HasPlayer(g, player_id) THEN g
    ELSE run_cards(g, player_id, Battlefield(g, player_id), event)

\* dispatch_event: the active player's triggers first, then the other players'
dispatch_event(g, event) ==
    LET g1 == run_player_triggers(g, g.turn.active_player, event)
    IN run_player_triggers(g1, get_next_player(g.turn.active_player), event)

-----------------------------------------------------------------------------
(* card.rs: zones, tapping, drawing *)

\* change_zone: the card's zone is set and its state reset; the owner's zone
\* lists are updated (the library list loses the card)
change_zone(g, card_id, zone) ==
    IF ~HasCard(g, card_id) THEN g
    ELSE [g EXCEPT !.cards[card_id] = CardStateReset(card_id, zone),
                   !.players[CardDef[card_id].owner_id].library =
                        IF zone = "Library" THEN Append(RemoveFromSeq(@, card_id), card_id)
                        ELSE RemoveFromSeq(@, card_id)]

put_on_battlefield(g, card_id) == change_zone(g, card_id, "Battlefield")

put_on_graveyard(g, card_id) == change_zone(g, card_id, "Graveyard")

put_on_stack(g, card_id) == change_zone(g, card_id, "Stack")

put_in_hand(g, card_id) == change_zone(g, card_id, "Hand")

\* Card::tap
CanTap(g, card_id) == g.cards[card_id].zone = "Battlefield" /\ ~g.cards[card_id].tapped

\* tap_card: [g, ok]
tap_card(g, card_id, source) ==
    IF HasCard(g, card_id) /\ CanTap(g, card_id)
    THEN [g |-> dispatch_event([g EXCEPT !.cards[card_id].tapped = TRUE],
                               EventTap(source, CardDef[card_id].owner_id, card_id)),
          ok |-> TRUE]
    ELSE [g |-> g, ok |-> FALSE]

\* untap_card
untap_card(g, card_id, source) ==
    IF HasCard(g, card_id) /\ g.cards[card_id].zone = "Battlefield" /\ g.cards[card_id].tapped
    THEN dispatch_event([g EXCEPT !.cards[card_id].tapped = FALSE],
                        EventUntap(source, CardDef[card_id].owner_id, card_id))
    ELSE g

\* draw_card: the top of the library (its last element) goes to the hand; a
\* player who cannot draw loses
draw_card(g, player_id) ==
    IF ~HasPlayer(g, player_id) THEN g
    ELSE LET library == g.players[player_id].library
         IN IF library = <<>> THEN [g EXCEPT !.status = StatusLose(player_id)]
            ELSE LET card_id == Last(library)
                     g1 == [g EXCEPT !.players[player_id].library = Front(library)]
                 IN dispatch_event(change_zone(g1, card_id, "Hand"),
                                   EventDraw(player_id, card_id))

-----------------------------------------------------------------------------
(* action.rs: the validators of a Choice *)

\* Choice::validate_mana
RECURSIVE validate_mana(_, _)
validate_mana(choice, cost) ==
    CASE choice.k = "Mana" -> enough(choice.mana, cost)
      [] choice.k = "And" ->
            \E i \in 1..Len(choice.choices) : validate_mana(choice.choices[i], cost)
      [] OTHER -> FALSE

\* Choice::validate_card
RECURSIVE validate_card(_, _)
validate_card(choice, card_id) ==
    CASE choice.k = "Card" -> choice.id = card_id
      [] choice.k = "And" ->
            \E i \in 1..Len(choice.choices) : validate_card(choice.choices[i], card_id)
      [] OTHER -> FALSE

\* Choice::validate_player; player_id is an Option
RECURSIVE validate_player(_, _)
validate_player(choice, player_id) ==
    CASE choice.k = "Player" -> player_id = None \/ player_id = Some(choice.id)
      [] choice.k = "And" ->
            \E i \in 1..Len(choice.choices) : validate_player(choice.choices[i], player_id)
      [] OTHER -> FALSE

\* Choice::validate_creature: the first chosen card that is a creature, as an Option
RECURSIVE validate_creature(_, _)
validate_creature(choice, g) ==
    CASE choice.k = "Card" ->
            IF HasCard(g, choice.id) /\ CardDef[choice.id].kind = "Creature"
            THEN Some(choice.id) ELSE None
      [] choice.k = "And" ->
            LET hits == {i \in 1..Len(choice.choices) :
                            IsSome(validate_creature(choice.choices[i], g))}
            IN IF hits = {} THEN None
               ELSE validate_creature(choice.choices[CHOOSE i \in hits : \A j \in hits : i <= j], g)
      [] OTHER -> None

-----------------------------------------------------------------------------
(* action.rs: Action::valid *)

\* Action::valid_cost
RECURSIVE valid_cost(_, _, _)
valid_cost(a, g, cost) ==
    CASE cost.k = "None" -> TRUE
      [] cost.k = "Mana" -> validate_mana(a.choices.cost, ManaFrom(cost.s))
      [] cost.k = "Tap" ->
            IF cost.t.k = "Source"
            THEN /\ validate_card(a.choices.cost, a.card_id)
                 /\ (HasCard(g, a.card_id) =>
                        (CardDef[a.card_id].kind # "Creature" \/ ~g.cards[a.card_id].sick))
            ELSE TRUE
      [] cost.k = "Sacrifice" ->
            CASE cost.t.k = "Source" -> validate_card(a.choices.cost, a.card_id)
              [] cost.t.k = "Creature" ->
                    LET creature == validate_creature(a.choices.cost, g)
                    IN /\ IsSome(creature)
                       /\ g.cards[Unwrap(creature)].zone = "Battlefield"
                       /\ CardDef[Unwrap(creature)].owner_id = a.player_id
              [] OTHER -> FALSE
      [] cost.k = "And" -> \A i \in 1..Len(cost.costs) : valid_cost(a, g, cost.costs[i])

\* Action::valid_target
RECURSIVE valid_target(_, _, _)
valid_target(a, g, target) ==
    CASE target.k = "None" -> TRUE
      [] target.k = "Source" -> validate_card(a.choices.target, a.card_id)
      [] target.k = "Player" -> validate_player(a.choices.target, None)
      [] target.k = "Creature" -> IsSome(validate_creature(a.choices.target, g))
      [] target.k = "Owner" -> validate_player(a.choices.target, Some(a.player_id))
      [] target.k = "AnyOf" -> \E i \in 1..Len(target.opts) : valid_target(a, g, target.opts[i])

\* Action::valid_effect
valid_effect(a, g) ==
    CASE a.required.effect.k = "Mana" -> validate_mana(a.choices.effect, a.required.effect.mana)
      [] a.required.effect.k = "Discard" ->
            /\ a.choices.effect.k = "And"
            /\ Len(a.choices.effect.choices) = a.required.effect.n
            /\ \A i \in 1..Len(a.choices.effect.choices) :
                    LET choice == a.choices.effect.choices[i]
                    IN /\ choice.k = "Card"
                       /\ HasCard(g, choice.id)
                       /\ CardDef[choice.id].owner_id = a.player_id
      [] OTHER -> TRUE

\* Action::valid
valid(a, g) ==
    valid_cost(a, g, a.required.cost) /\ valid_target(a, g, a.required.target) /\ valid_effect(a, g)

-----------------------------------------------------------------------------
(* action.rs: Action::pay; the results are [g, ok] *)

RECURSIVE pay_cost(_, _, _, _)
RECURSIVE pay_any(_, _, _, _)
RECURSIVE pay_all(_, _, _, _)

\* choices.iter().any(|choice| self.pay_cost(game, cost, choice)): the choices are
\* tried in order until one pays
pay_any(a, g, cost, choices) ==
    IF choices = <<>> THEN [g |-> g, ok |-> FALSE]
    ELSE LET tried(r) == IF r.ok THEN r ELSE pay_any(a, r.g, cost, Tail(choices))
         IN tried(pay_cost(a, g, cost, Head(choices)))

\* costs.iter().all(|cost| self.pay_cost(game, cost, choice)): the costs are paid
\* in order until one fails; what was paid before stays paid
pay_all(a, g, costs, choice) ==
    IF costs = <<>> THEN [g |-> g, ok |-> TRUE]
    ELSE LET tried(r) == IF r.ok THEN pay_all(a, r.g, Tail(costs), choice) ELSE r
         IN tried(pay_cost(a, g, Head(costs), choice))

\* Action::pay_cost
pay_cost(a, g, cost, choice) ==
    CASE cost.k = "None" -> [g |-> g, ok |-> TRUE]
      [] cost.k = "Mana" ->
            CASE choice.k = "Mana" ->
                    IF HasPlayer(g, a.player_id)
                    THEN [g |-> [g EXCEPT !.players[a.player_id].mana = ManaSub(@, choice.mana)],
                          ok |-> TRUE]
                    ELSE [g |-> g, ok |-> FALSE]
              [] choice.k = "And" -> pay_any(a, g, cost, choice.choices)
              [] OTHER -> [g |-> g, ok |-> FALSE]
      [] cost.k = "Tap" ->
            CASE choice.k = "Card" -> tap_card(g, choice.id, Some(a.card_id))
              [] choice.k = "And" -> pay_any(a, g, cost, choice.choices)
              [] OTHER -> [g |-> g, ok |-> FALSE]
      [] cost.k = "Sacrifice" ->
            CASE choice.k = "Card" -> [g |-> put_on_graveyard(g, choice.id), ok |-> TRUE]
              [] choice.k = "And" -> pay_any(a, g, cost, choice.choices)
              [] OTHER -> [g |-> g, ok |-> FALSE]
      [] cost.k = "And" -> pay_all(a, g, cost.costs, choice)

\* Action::pay
pay(a, g) == pay_cost(a, g, a.required.cost, a.choices.cost)

\* a faulty call of Action::valid: the cost is paid while it is validated
validated_paying(a, g) == [g |-> pay(a, g).g, ok |-> valid(a, g)]

\* a call of Action::valid(&self, game: &mut Game): the game it leaves and the
\* value it returns; no branch of valid_cost, valid_target, valid_effect or of
\* the validate_* functions of Choice writes through the references it takes
validated(a, g) == [g |-> g, ok |-> valid(a, g)]

-----------------------------------------------------------------------------
(* turn.rs: steps and priority *)

\* Step::main
StepMain(step) == step = "Precombat" \/ step = "Postcombat"

\* Priority::pass
PriorityPass(priority, next_player) ==
    [player_id |-> next_player, passes |-> priority.passes \cup {priority.player_id}]

\* Priority::passed
PriorityPassed(priority, player_id) == player_id \in priority.passes

\* a faulty all_passed: one recorded pass is enough
some_passed(g, priority) == \E p \in Players : PriorityPassed(priority, p)

\* all_passed
all_passed(g, priority) == \A p \in Players : PriorityPassed(priority, p)

\* pass_priority
pass_priority(g) ==
    LET next_player == get_next_player(g.turn.active_player)
    IN IF IsSome(g.turn.priority)
       THEN [g EXCEPT !.turn.priority = Some(PriorityPass(Unwrap(@), next_player))]
       ELSE g

\* pass_turn
pass_turn(g) == [g EXCEPT !.turn = TurnNew(get_next_player(g.turn.active_player))]

\* Mana::clear for every player
ClearMana(g) == [g EXCEPT !.players = [p \in Players |-> [g.players[p] EXCEPT !.mana = ManaNew]]]

\* game.turn.priority = Some(Priority::new(game.turn.active_player))
open_priority(g) == [g EXCEPT !.turn.priority = Some(PriorityNew(g.turn.active_player))]

\* dispatch_event(game, Event::Phase(PhaseEvent { owner_id: active_player, phase }))
dispatch_phase(g, phase) == dispatch_event(g, EventPhase(g.turn.active_player, phase))

\* change_step
change_step(g, phase) ==
    open_priority(dispatch_phase(ClearMana([g EXCEPT !.turn.step = phase]), phase))

\* the tapped battlefield cards of the active player, untapped one after the other
RECURSIVE untap_cards(_, _)
untap_cards(g, cards) ==
    IF cards = {} THEN g
    ELSE LET card_id == CHOOSE c \in cards : \A d \in cards : c <= d
             untapped(g1) == IF CardDef[card_id].kind = "Creature"
                             THEN [g1 EXCEPT !.cards[card_id].sick = FALSE] ELSE g1
         IN untap_cards(untapped(untap_card(g, card_id, None)), cards \ {card_id})

\* untap_step
untap_step(g) ==
    LET g1 == [g EXCEPT !.turn.step = "Untap"]
        tapped_cards == {c \in DOMAIN g1.cards : /\ CardDef[c].owner_id = g1.turn.active_player
                                         /\ g1.cards[c].zone = "Battlefield"
                                         /\ g1.cards[c].tapped}
    IN dispatch_phase(untap_cards(g1, tapped_cards), "Untap")

\* draw_step
draw_step(g) ==
    open_priority(dispatch_phase(draw_card([g EXCEPT !.turn.step = "Draw"],
                                           g.turn.active_player), "Draw"))

\* declare_attackers_step_start
declare_attackers_step_start(g) ==
    [g EXCEPT !.turn.step = "DeclareAttackers", !.turn.priority = None]

\* the ids of the declared attackers (Combat::get_attackers)
get_attackers(g) == {g.turn.combat.attackers[i].id : i \in DOMAIN g.turn.combat.attackers}

\* the loop of declare_attackers_step_end: Card::tap on every attacker without
\* Vigilance, no event is dispatched
tap_attackers(g) ==
    [g EXCEPT !.cards = [c \in DOMAIN g.cards |->
                            IF /\ c \in get_attackers(g)
                               /\ "Vigilance" \notin CardDef[c].static_abilities
                               /\ g.cards[c].zone = "Battlefield"
                            THEN [g.cards[c] EXCEPT !.tapped = TRUE]
                            ELSE g.cards[c]]]

\* declare_attackers_step_end
declare_attackers_step_end(g) ==
    open_priority(dispatch_phase(tap_attackers(g), "DeclareAttackers"))

\* declare_blockers_step_start
declare_blockers_step_start(g) ==
    [g EXCEPT !.turn.step = "DeclareBlockers", !.turn.priority = None]

\* declare_blockers_step_end
declare_blockers_step_end(g) ==
    open_priority(dispatch_phase(g, "DeclareBlockers"))

\* cleanup_step: creatures are restored to their default power and toughness
cleanup_step(g) ==
    [g EXCEPT !.turn.step = "Cleanup",
              !.cards = [c \in DOMAIN g.cards |->
                            IF CardDef[c].kind = "Creature"
                            THEN [g.cards[c] EXCEPT !.toughness = CardDef[c].toughness]
                            ELSE g.cards[c]]]

-----------------------------------------------------------------------------
(* abilities.rs: damage *)

\* the casts `as u16` and `as i16` of a 16 bit integer
AsU16(x) == x % 65536

AsI16(x) == IF x % 65536 >= 32768 THEN (x % 65536) - 65536 ELSE x % 65536

\* i16::saturating_sub
SaturatingSub(a, b) ==
    IF a - b > 32767 THEN 32767 ELSE IF a - b < -32768 THEN -32768 ELSE a - b

\* game.rs: take_damage
take_damage(g, player_id, damage) ==
    IF damage = 0 \/ ~HasPlayer(g, player_id) THEN g
    ELSE LET life == SaturatingSub(g.players[player_id].life, AsI16(damage))
         IN [g EXCEPT !.players[player_id].life = life,
                      !.status = IF life = 0 THEN StatusLose(player_id) ELSE @]

\* deal_player_damage
deal_player_damage(g, player_id, damage) ==
    IF damage = 0 \/ ~HasPlayer(g, player_id) THEN g
    ELSE LET life == AsI16(g.players[player_id].life - AsI16(damage))
         IN [g EXCEPT !.players[player_id].life = life,
                      !.status = IF life <= 0 THEN StatusLose(player_id) ELSE @]

\* deal_damage
deal_damage(g, card_id, damage) ==
    IF damage = 0 \/ ~HasCard(g, card_id) \/ CardDef[card_id].kind # "Creature" THEN g
    ELSE LET toughness == g.cards[card_id].toughness - damage
             g1 == [g EXCEPT !.cards[card_id].toughness = toughness]
         IN IF toughness <= 0 THEN put_on_graveyard(g1, card_id) ELSE g1

-----------------------------------------------------------------------------
(* turn.rs: combat *)

AttackTypes == <<"FirstStrike", "Regular">>

\* IndexMap::get(..).unwrap_or(&0) and IndexMap::insert on a map of numbers
MapGet(m, k) == IF k \in DOMAIN m THEN m[k] ELSE 0

MapInsert(m, k, v) == [x \in DOMAIN m \cup {k} |-> IF x = k THEN v ELSE m[x]]

\* the sum of the values of a map
RECURSIVE MapSum(_)
MapSum(m) ==
    IF DOMAIN m = {} THEN 0
    ELSE LET k == CHOOSE x \in DOMAIN m : TRUE
         IN m[k] + MapSum([x \in DOMAIN m \ {k} |-> m[x]])

\* Attack::new
AttackNew(power) == [power |-> [current |-> power, default |-> power], assignments |-> <<>>]

\* the place of an attacker in combat.attackers, 0 if it is not declared
AttackerIndex(g, attacker_id) ==
    IF attacker_id \in get_attackers(g)
    THEN CHOOSE i \in DOMAIN g.turn.combat.attackers :
            g.turn.combat.attackers[i].id = attacker_id
    ELSE 0

\* the blockers of every attacker (Combat::get_blockers)
get_blockers(g) ==
    UNION {SeqToSet(g.turn.combat.attackers[i].blockers) : i \in DOMAIN g.turn.combat.attackers}

\* a faulty can_declare_attacker: a creature with summoning sickness may attack
can_declare_attacker_sick(g, card_id) ==
    /\ HasCard(g, card_id)
    /\ CardDef[card_id].owner_id = g.turn.active_player
    /\ g.cards[card_id].zone = "Battlefield"
    /\ CardDef[card_id].kind = "Creature"
    /\ "Defender" \notin CardDef[card_id].static_abilities
    /\ ~g.cards[card_id].tapped

\* can_declare_attacker
can_declare_attacker(g, card_id) ==
    /\ HasCard(g, card_id)
    /\ CardDef[card_id].owner_id = g.turn.active_player
    /\ g.cards[card_id].zone = "Battlefield"
    /\ CardDef[card_id].kind = "Creature"
    /\ "Defender" \notin CardDef[card_id].static_abilities
    /\ ~g.cards[card_id].tapped
    /\ ~g.cards[card_id].sick

\* the attacks of a declared card: first strike only, both for double strike,
\* regular otherwise
AttacksOf(card_id) ==
    LET attack == AttackNew(CardDef[card_id].power)
    IN IF "FirstStrike" \in CardDef[card_id].static_abilities
       THEN [t \in {"FirstStrike"} |-> attack]
       ELSE IF "DoubleStrike" \in CardDef[card_id].static_abilities
       THEN [t \in {"FirstStrike", "Regular"} |-> attack]
       ELSE [t \in {"Regular"} |-> attack]

\* declare_attacker: IndexMap::insert replaces the record of an attacker that
\* is declared again and keeps its place
declare_attacker(g, attacker_id, target) ==
    IF ~can_declare_attacker(g, attacker_id) THEN g
    ELSE LET attacker == [id |-> attacker_id, target |-> target,
                          attacks |-> AttacksOf(attacker_id),
                          blockers |-> <<>>, blocked |-> FALSE]
             i == AttackerIndex(g, attacker_id)
         IN IF i = 0
            THEN [g EXCEPT !.turn.combat.attackers = Append(@, attacker)]
            ELSE [g EXCEPT !.turn.combat.attackers[i] = attacker]

\* fast_declare_attacker
fast_declare_attacker(g, attacker_id) ==
    declare_attackers_step_end(
        declare_attacker(declare_attackers_step_start(g), attacker_id,
                         get_next_player(g.turn.active_player)))

\* can_declare_blocker
can_declare_blocker(g, blocker_id, attacker_id) ==
    /\ AttackerIndex(g, attacker_id) # 0
    /\ HasCard(g, blocker_id)
    /\ CardDef[blocker_id].owner_id =
            g.turn.combat.attackers[AttackerIndex(g, attacker_id)].target
    /\ g.cards[blocker_id].zone = "Battlefield"
    /\ CardDef[blocker_id].kind = "Creature"
    /\ (HasCard(g, attacker_id) /\ "Flying" \in CardDef[attacker_id].static_abilities)
            => \/ "Flying" \in CardDef[blocker_id].static_abilities
               \/ "Reach" \in CardDef[blocker_id].static_abilities

\* declare_blocker: IndexSet::insert keeps a blocker that is already there
declare_blocker(g, blocker_id, attacker_id) ==
    IF ~can_declare_blocker(g, blocker_id, attacker_id) THEN g
    ELSE [g EXCEPT !.turn.combat.attackers[AttackerIndex(g, attacker_id)].blockers =
                        IF blocker_id \in SeqToSet(@) THEN @ ELSE Append(@, blocker_id)]

\* the loop of fast_declare_blockers
RECURSIVE declare_blockers(_, _, _)
declare_blockers(g, blocker_ids, attacker_id) ==
    IF blocker_ids = <<>> THEN g
    ELSE declare_blockers(declare_blocker(g, Head(blocker_ids), attacker_id),
                          Tail(blocker_ids), attacker_id)

\* fast_declare_blockers
fast_declare_blockers(g, blocker_ids, attacker_id) ==
    declare_blockers_step_end(
        declare_blockers(declare_blockers_step_start(g), blocker_ids, attacker_id))

\* set_blockers_toughness: the current toughness of every declared blocker
set_blockers_toughness(g) ==
    [g EXCEPT !.turn.combat.blockers_toughness =
        [b \in DOMAIN @ \cup get_blockers(g) |->
            IF b \in get_blockers(g)
            THEN (IF HasCard(g, b) THEN g.cards[b].toughness ELSE 0)
            ELSE @[b]]]

\* the inner loop of combat_damage_step_start: the damage left of attack
\* attack_type of the i-th attacker is distributed over its blockers in order
RECURSIVE auto_assign(_, _, _, _, _)
auto_assign(g, i, attack_type, blockers, damage_left) ==
    IF blockers = <<>> \/ damage_left <= 0 THEN g
    ELSE LET blocker_id == Head(blockers)
             toughness == MapGet(g.turn.combat.blockers_toughness, blocker_id)
             damage == Min(toughness, damage_left)
         IN auto_assign(
                [g EXCEPT !.turn.combat.blockers_toughness =
                                MapInsert(@, blocker_id, toughness - damage),
                          !.turn.combat.attackers[i].attacks[attack_type].assignments =
                                MapInsert(@, blocker_id, damage),
                          !.turn.combat.attackers[i].attacks[attack_type].power.current =
                                damage_left - damage],
                i, attack_type, Tail(blockers), damage_left - damage)

\* the loop over the attackers for one attack type, from the i-th attacker on
RECURSIVE auto_assign_from(_, _, _)
auto_assign_from(g, attack_type, i) ==
    IF i > Len(g.turn.combat.attackers) THEN g
    ELSE IF attack_type \notin DOMAIN g.turn.combat.attackers[i].attacks
    THEN auto_assign_from(g, attack_type, i + 1)
    ELSE auto_assign_from(
            auto_assign(g, i, attack_type, g.turn.combat.attackers[i].blockers,
                        g.turn.combat.attackers[i].attacks[attack_type].power.default),
            attack_type, i + 1)

\* combat_damage_step_start
combat_damage_step_start(g) ==
    auto_assign_from(
        auto_assign_from(set_blockers_toughness([g EXCEPT !.turn.step = "CombatDamage"]),
                         "FirstStrike", 1),
        "Regular", 1)

\* the damage an attack of an attacker record assigns to a blocker, 0 without
\* such an attack
Assigned(attacker, attack_type, blocker_id) ==
    IF attack_type \in DOMAIN attacker.attacks
    THEN MapGet(attacker.attacks[attack_type].assignments, blocker_id)
    ELSE 0

\* the blockers an attacker record has an assignment for
AssignedBlockers(attacker) ==
    UNION {DOMAIN attacker.attacks[t].assignments : t \in DOMAIN attacker.attacks}

\* reset_combat_assignments: every attack gets its power back, the damage it
\* assigned is given back to the blockers' toughness, its assignments are cleared
reset_combat_assignments(g, attacker_id) ==
    IF AttackerIndex(g, attacker_id) = 0 THEN g
    ELSE LET i == AttackerIndex(g, attacker_id)
             attacker == g.turn.combat.attackers[i]
         IN [g EXCEPT
                !.turn.combat.blockers_toughness =
                    [b \in DOMAIN @ \cup AssignedBlockers(attacker) |->
                        MapGet(@, b) + Assigned(attacker, "FirstStrike", b)
                                     + Assigned(attacker, "Regular", b)],
                !.turn.combat.attackers[i].attacks =
                    [t \in DOMAIN attacker.attacks |->
                        [power |-> [current |-> attacker.attacks[t].power.default,
                                    default |-> attacker.attacks[t].power.default],
                         assignments |-> <<>>]]]

\* the writes of an accepted assign_combat_damage
Assign(g, i, attack_type, blocker_id, damage, current, toughness) ==
    [g EXCEPT !.turn.combat.attackers[i].attacks[attack_type].power.current = current,
              !.turn.combat.attackers[i].attacks[attack_type].assignments =
                    MapInsert(@, blocker_id, damage),
              !.turn.combat.blockers_toughness = MapInsert(@, blocker_id, toughness)]

\* assign_combat_damage: [g, ok]
assign_combat_damage(g, attacker_id, blocker_id, attack_type, damage) ==
    LET toughness == MapGet(g.turn.combat.blockers_toughness, blocker_id)
        i == AttackerIndex(g, attacker_id)
        attack == g.turn.combat.attackers[i].attacks[attack_type]
        current == MapGet(attack.assignments, blocker_id)
        diff == current - damage
    IN IF damage < 0 \/ damage > toughness THEN [g |-> g, ok |-> FALSE]
       ELSE IF i = 0 THEN [g |-> g, ok |-> FALSE]
       ELSE IF attack_type \notin DOMAIN g.turn.combat.attackers[i].attacks
       THEN [g |-> g, ok |-> FALSE]
       ELSE IF attack.power.current = attack.power.default
       THEN [g |-> Assign(g, i, attack_type, blocker_id, damage,
                          attack.power.current - damage, toughness - damage),
             ok |-> TRUE]
       ELSE IF diff < 0 /\ attack.power.current >= -diff
       THEN [g |-> Assign(g, i, attack_type, blocker_id, damage,
                          attack.power.current - diff, toughness - diff),
             ok |-> TRUE]
       ELSE IF diff > 0
       THEN [g |-> Assign(g, i, attack_type, blocker_id, damage,
                          attack.power.current + diff, toughness + diff),
             ok |-> TRUE]
       ELSE [g |-> g, ok |-> FALSE]

\* the attacks is_combat_damage_assigned looks at, in its order: <<type, i>> for
\* the first-strike attacks of every attacker, then the regular ones
AttackOrder(g) ==
    [n \in 1..(2 * Len(g.turn.combat.attackers)) |->
        IF n <= Len(g.turn.combat.attackers)
        THEN <<"FirstStrike", n>>
        ELSE <<"Regular", n - Len(g.turn.combat.attackers)>>]

\* the loop of is_combat_damage_assigned: [g, ok].  The toughness left of every
\* blocker with an assignment is lowered by the assignment as the loop goes.
RECURSIVE damage_assigned_from(_, _)
damage_assigned_from(g, order) ==
    IF order = <<>> THEN [g |-> g, ok |-> TRUE]
    ELSE IF Head(order)[1] \notin DOMAIN g.turn.combat.attackers[Head(order)[2]].attacks
    THEN damage_assigned_from(g, Tail(order))
    ELSE LET attack == g.turn.combat.attackers[Head(order)[2]].attacks[Head(order)[1]]
             left == g.turn.combat.blockers_toughness
             total_assigned == MapSum(attack.assignments)
             max_assigned == MapSum([b \in DOMAIN attack.assignments |-> MapGet(left, b)])
             lowered == [g EXCEPT !.turn.combat.blockers_toughness =
                            [b \in DOMAIN left \cup DOMAIN attack.assignments |->
                                IF b \in DOMAIN attack.assignments
                                THEN MapGet(left, b) - attack.assignments[b]
                                ELSE left[b]]]
         IN IF total_assigned < Min(max_assigned, attack.power.default)
            THEN [g |-> lowered, ok |-> FALSE]
            ELSE damage_assigned_from(lowered, Tail(order))

\* is_combat_damage_assigned: [g, ok]
is_combat_damage_assigned(g) == damage_assigned_from(g, AttackOrder(g))

\* is_alive
is_alive(g, card_id) ==
    HasCard(g, card_id) /\ CardDef[card_id].kind = "Creature" /\ g.cards[card_id].toughness > 0

\* split_first_strike: the creatures that hit in the first pass, those that hit
\* in the last
hit_first(g, creatures) ==
    {c \in creatures : /\ HasCard(g, c)
                       /\ \/ "DoubleStrike" \in CardDef[c].static_abilities
                          \/ "FirstStrike" \in CardDef[c].static_abilities}

\* a faulty split_first_strike: a creature with double strike hits in the first
\* pass only
hit_last_once(g, creatures) ==
    {c \in creatures : /\ HasCard(g, c)
                       /\ "DoubleStrike" \notin CardDef[c].static_abilities
                       /\ "FirstStrike" \notin CardDef[c].static_abilities}

hit_last(g, creatures) ==
    {c \in creatures : /\ HasCard(g, c)
                       /\ \/ "DoubleStrike" \in CardDef[c].static_abilities
                          \/ "FirstStrike" \notin CardDef[c].static_abilities}

\* the loop of deal_combat_damage over the blockers of the i-th attacker: the
\* blocker takes the damage assigned to it, the attacker the blocker's power
RECURSIVE deal_blockers(_, _, _, _, _, _)
deal_blockers(g, i, block, can_attack, can_counterattack, attack_type) ==
    IF block = <<>> THEN g
    ELSE LET attacker == g.turn.combat.attackers[i]
             blocker == Head(block)
             damage_dealt == Assigned(attacker, attack_type, blocker)
             damage_taken == IF HasCard(g, blocker) THEN CardDef[blocker].power ELSE 0
             hit == IF HasCard(g, blocker) /\ attacker.id \in can_attack
                    THEN [g EXCEPT !.cards[blocker].toughness = @ - damage_dealt]
                    ELSE g
         IN deal_blockers(
                IF HasCard(g, attacker.id) /\ blocker \in can_counterattack
                THEN [hit EXCEPT !.cards[attacker.id].toughness = @ - damage_taken]
                ELSE hit,
                i, Tail(block), can_attack, can_counterattack, attack_type)

\* the end of the loop body of deal_combat_damage: an attacker that is not
\* blocked deals the power left of its attack to the defending player
deal_unblocked(g, i, can_attack, attack_type) ==
    LET attacker == g.turn.combat.attackers[i]
    IN IF /\ attack_type \in DOMAIN attacker.attacks
          /\ ~attacker.blocked
          /\ attacker.id \in can_attack
       THEN deal_player_damage(g, attacker.target,
                               AsU16(attacker.attacks[attack_type].power.current))
       ELSE g

\* deal_combat_damage, from the i-th attacker on
RECURSIVE deal_combat_damage(_, _, _, _, _)
deal_combat_damage(g, i, can_attack, can_counterattack, attack_type) ==
    IF i > Len(g.turn.combat.attackers) THEN g
    ELSE LET trample == /\ HasCard(g, g.turn.combat.attackers[i].id)
                        /\ "Trample" \in CardDef[g.turn.combat.attackers[i].id].static_abilities
             block == g.turn.combat.attackers[i].blockers
             marked == [g EXCEPT !.turn.combat.attackers[i].blocked =
                                    ~trample /\ Len(block) > 0]
         IN deal_combat_damage(
                deal_unblocked(deal_blockers(marked, i, block, can_attack,
                                             can_counterattack, attack_type),
                               i, can_attack, attack_type),
                i + 1, can_attack, can_counterattack, attack_type)

\* the end of combat_damage_step_end: the combatants that are not alive are put
\* on the graveyard
RECURSIVE bury(_, _)
bury(g, dead) ==
    IF dead = {} THEN g
    ELSE LET card_id == CHOOSE c \in dead : \A d \in dead : c <= d
         IN bury(put_on_graveyard(g, card_id), dead \ {card_id})

\* the first pass of combat_damage_step_end
first_strike_pass(g) ==
    deal_combat_damage(g, 1, hit_first(g, get_attackers(g)), hit_first(g, get_blockers(g)),
                       "FirstStrike")

\* a faulty regular pass: the creatures killed in the first pass still hit
regular_pass_all(g, attackers_last, blockers_last) ==
    deal_combat_damage(g, 1, attackers_last, blockers_last, "Regular")

\* the regular pass: the creatures killed in the first pass do not hit
regular_pass(g, attackers_last, blockers_last) ==
    deal_combat_damage(g, 1, {c \in attackers_last : is_alive(g, c)},
                       {c \in blockers_last : is_alive(g, c)}, "Regular")

\* a faulty combat_damage_step_end: the creatures killed in the first pass are
\* put on the graveyard before the regular pass
deal_and_bury_each_pass(g) ==
    LET dealt(g1) == regular_pass(g1, hit_last(g, get_attackers(g)),
                                  hit_last(g, get_blockers(g)))
        buried(g2) == bury(g2, {c \in get_attackers(g2) \cup get_blockers(g2) :
                                    ~is_alive(g2, c)})
    IN buried(dealt(buried(first_strike_pass(g))))

\* combat_damage_step_end after the gate
deal_and_bury(g) ==
    LET dealt(g1) == regular_pass(g1, hit_last(g, get_attackers(g)),
                                  hit_last(g, get_blockers(g)))
        buried(g2) == bury(g2, {c \in get_attackers(g2) \cup get_blockers(g2) :
                                    ~is_alive(g2, c)})
    IN buried(dealt(first_strike_pass(g)))

\* combat_damage_step_end
combat_damage_step_end(g) ==
    LET after(gate) == IF gate.ok THEN deal_and_bury(gate.g) ELSE gate.g
    IN after(is_combat_damage_assigned(g))

-----------------------------------------------------------------------------
(* abilities.rs: playing cards and abilities *)

\* a faulty can_play_card: the step is not looked at
can_play_card_any_step(g, card_id, player_id) ==
    /\ IsSome(g.turn.priority)
    /\ Unwrap(g.turn.priority).player_id = player_id
    /\ HasCard(g, card_id)
    /\ CardDef[card_id].owner_id = player_id
    /\ \/ CardDef[card_id].kind = "Instant"
       \/ /\ Len(g.stack) = 0
          /\ g.turn.active_player = player_id
          /\ (CardDef[card_id].kind = "Land" =>
                g.turn.lands_played < (IF HasPlayer(g, player_id) THEN DefaultLandLimit ELSE 0))

\* a faulty can_play_card: the lands played this turn are not counted
can_play_card_no_land_limit(g, card_id, player_id) ==
    /\ IsSome(g.turn.priority)
    /\ Unwrap(g.turn.priority).player_id = player_id
    /\ HasCard(g, card_id)
    /\ CardDef[card_id].owner_id = player_id
    /\ \/ CardDef[card_id].kind = "Instant"
       \/ /\ Len(g.stack) = 0
          /\ StepMain(g.turn.step)
          /\ g.turn.active_player = player_id

\* can_play_card
can_play_card(g, card_id, player_id) ==
    /\ IsSome(g.turn.priority)
    /\ Unwrap(g.turn.priority).player_id = player_id
    /\ HasCard(g, card_id)
    /\ CardDef[card_id].owner_id = player_id
    /\ \/ CardDef[card_id].kind = "Instant"
       \/ /\ Len(g.stack) = 0
          /\ StepMain(g.turn.step)
          /\ g.turn.active_player = player_id
          /\ (CardDef[card_id].kind = "Land" =>
                g.turn.lands_played < (IF HasPlayer(g, player_id) THEN DefaultLandLimit ELSE 0))

\* play_card: [g, ok]; ok says whether the card was played
play_card(g, card_id, action) ==
    IF ~can_play_card(g, card_id, action.player_id) THEN [g |-> g, ok |-> FALSE]
    ELSE IF ~valid(action, g) THEN [g |-> g, ok |-> FALSE]
    ELSE LET card == CardDef[card_id]
             after_pay(paid) ==
                IF ~paid.ok THEN [g |-> paid.g, ok |-> FALSE]
                ELSE IF card.kind = "Land"
                     THEN [g |-> put_on_battlefield(
                                    [paid.g EXCEPT !.turn.lands_played = @ + 1], card_id),
                           ok |-> TRUE]
                     ELSE LET effect == IF IsSome(card.play_ability)
                                        THEN Unwrap(card.play_ability).effect
                                        ELSE EffectNone
                          IN [g |-> put_on_stack(
                                        Push(paid.g, effect, action, card.owner_id,
                                             KindSpell(card_id)), card_id),
                              ok |-> TRUE]
         IN after_pay(pay(action, g))

\* ResolveChoice::default
ResolveChoiceDefault == [choice |-> ChoiceNone, player_id |-> 0, effect |-> EffectNone]

\* ResolveChoice::valid_choice
valid_choice(r, g) ==
    CASE r.effect.k = "Mana" ->
            ~ManaHas(r.effect.mana, "any") \/ validate_mana(r.choice, r.effect.mana)
      [] r.effect.k = "Discard" ->
            CASE r.choice.k = "Card" ->
                    /\ r.effect.n = 1
                    /\ HasCard(g, r.choice.id)
                    /\ CardDef[r.choice.id].owner_id = r.player_id
                    /\ g.cards[r.choice.id].zone = "Hand"
              [] r.choice.k = "And" ->
                    /\ Len(r.choice.choices) = r.effect.n
                    /\ \A i \in 1..Len(r.choice.choices) :
                            LET choice == r.choice.choices[i]
                            IN /\ choice.k = "Card"
                               /\ HasCard(g, choice.id)
                               /\ CardDef[choice.id].owner_id = r.player_id
                               /\ g.cards[choice.id].zone = "Hand"
              [] OTHER -> FALSE
      [] OTHER -> TRUE

\* draw_card, count times
RECURSIVE draw_cards(_, _, _)
draw_cards(g, player_id, count) ==
    IF count = 0 THEN g ELSE draw_cards(draw_card(g, player_id), player_id, count - 1)

\* the chosen cards of a Discard, put on the graveyard one after the other
RECURSIVE discard_cards(_, _)
discard_cards(g, choices) ==
    IF choices = <<>> THEN g
    ELSE discard_cards(IF Head(choices).k = "Card" THEN put_on_graveyard(g, Head(choices).id)
                       ELSE g,
                       Tail(choices))

Ok(g, next) == [g |-> g, ok |-> TRUE, next |-> next, err |-> "None"]

Err(g, err) == [g |-> g, ok |-> FALSE, next |-> None, err |-> err]

\* resolve_effect: Ok(None) or an error
resolve_effect(g, effect, action, r) ==
    IF ~valid_choice(r, g) THEN Err(g, "InvalidChoice")
    ELSE IF ~HasPlayer(g, action.player_id) THEN Err(g, "UnknownActionOwner")
    ELSE CASE effect.k = "Mana" ->
                IF ManaHas(effect.mana, "any")
                THEN IF r.choice.k = "Mana"
                     THEN Ok([g EXCEPT !.players[action.player_id].mana = ManaAdd(@, r.choice.mana)],
                             None)
                     ELSE Err(g, "InvalidChoice")
                ELSE Ok([g EXCEPT !.players[action.player_id].mana = ManaAdd(@, effect.mana)], None)
           [] effect.k = "Damage" ->
                CASE action.choices.target.k = "Player" ->
                        Ok(deal_player_damage(g, action.choices.target.id, effect.n), None)
                  [] action.choices.target.k = "Card" ->
                        Ok(deal_damage(g, action.choices.target.id, effect.n), None)
                  [] OTHER -> Err(g, "InvalidTarget")
           [] effect.k = "Discard" ->
                CASE r.choice.k = "And" ->
                        IF Len(r.choice.choices) # effect.n THEN Err(g, "InvalidChoice")
                        ELSE Ok(discard_cards(g, r.choice.choices), None)
                  [] r.choice.k = "Card" -> Ok(put_on_graveyard(g, r.choice.id), None)
                  [] OTHER -> Err(g, "InvalidChoice")
           [] effect.k = "Draw" ->
                CASE action.required.target.k = "Owner" ->
                        Ok(draw_cards(g, action.player_id, effect.n), None)
                  [] action.required.target.k = "Player" ->
                        IF action.choices.target.k = "Player"
                        THEN Ok(draw_cards(g, action.choices.target.id, effect.n), None)
                        ELSE Ok(g, None)
                  [] OTHER -> Err(g, "InvalidTarget")
           [] OTHER -> Err(g, "UnknownEffect")

\* get_next_resolve_choice: the request for the front effect of the entry, as an Option
get_next_resolve_choice(resolve) ==
    LET effect == IF resolve.effect.k = "And"
                  THEN (IF resolve.effect.effects = <<>> THEN EffectNone
                        ELSE Head(resolve.effect.effects))
                  ELSE resolve.effect
    IN CASE effect.k = "Mana" ->
                IF ManaHas(effect.mana, "any")
                THEN Some([ResolveChoiceDefault EXCEPT !.effect = effect,
                                                       !.player_id = resolve.player_id])
                ELSE None
         [] effect.k = "Discard" ->
                IF resolve.action.choices.target.k = "Player"
                THEN Some([ResolveChoiceDefault EXCEPT
                                !.effect = effect, !.player_id = resolve.action.choices.target.id])
                ELSE IF resolve.action.required.target = TargetOwner
                     THEN Some([ResolveChoiceDefault EXCEPT !.effect = effect,
                                                            !.player_id = resolve.player_id])
                     ELSE None
         [] OTHER -> None

\* a faulty start_resolve: the oldest waiting entry is taken
start_resolve_fifo(g) == [g EXCEPT !.resolve = Some(Head(g.stack)), !.stack = Tail(g.stack)]

\* start_resolve; the call panics on an empty stack
start_resolve(g) == [g EXCEPT !.resolve = Some(Last(g.stack)), !.stack = Front(g.stack)]

\* resolve_choice: [g, ok, next, err]
RECURSIVE resolve_choice(_, _)
resolve_choice(g, choice) ==
    IF ~IsSome(g.resolve) THEN Err(g, "EmptyStack")
    ELSE LET resolve == Unwrap(g.resolve)
         IN IF resolve.effect.k = "And"
            THEN LET effects == resolve.effect.effects
                     rest == IF effects = <<>> THEN effects ELSE Tail(effects)
                     popped == [resolve EXCEPT !.effect = EffectAnd(rest)]
                     advance(g1, result) ==
                        IF /\ IsSome(result)
                           /\ Unwrap(result).effect # EffectNone
                           /\ get_required_choice(Unwrap(result).effect) = ChoiceNone
                        THEN resolve_choice(g1, ResolveChoiceDefault)
                        ELSE Ok(g1, result)
                     after(applied) ==
                        IF ~applied.ok THEN applied
                        ELSE advance([applied.g EXCEPT !.resolve = Some(popped)],
                                     IF rest = <<>> THEN None
                                     ELSE get_next_resolve_choice(popped))
                 IN after(IF effects = <<>> THEN Ok(g, None)
                          ELSE resolve_effect(g, Head(effects), resolve.action, choice))
            ELSE LET after(applied) ==
                        [applied EXCEPT !.g = [applied.g EXCEPT !.resolve = Some(resolve)]]
                 IN after(resolve_effect(g, resolve.effect, resolve.action, choice))

\* a faulty end_resolve: the card of every spell goes to the graveyard
end_resolve_to_graveyard(g) ==
    LET resolve == Unwrap(g.resolve)
        placed == IF resolve.kind.k = "Spell" /\ HasCard(g, resolve.kind.id)
                  THEN put_on_graveyard(g, resolve.kind.id)
                  ELSE g
    IN open_priority([placed EXCEPT !.resolve = None])

\* end_resolve; the call panics when nothing is resolving
end_resolve(g) ==
    LET resolve == Unwrap(g.resolve)
        placed == IF resolve.kind.k = "Spell" /\ HasCard(g, resolve.kind.id)
                  THEN IF CardDef[resolve.kind.id].kind
                            \in {"Artifact", "Enchantment", "Creature", "Land"}
                       THEN put_on_battlefield(g, resolve.kind.id)
                       ELSE put_on_graveyard(g, resolve.kind.id)
                  ELSE g
    IN open_priority([placed EXCEPT !.resolve = None])

\* a faulty play_ability: a mana ability waits on the stack like any other
play_ability_on_stack(g, card_id, ability_id, action) ==
    IF ~HasCard(g, card_id) THEN [g |-> g, ok |-> FALSE, panic |-> FALSE]
    ELSE IF ability_id + 1 > Len(CardDef[card_id].activated_abilities)
    THEN [g |-> g, ok |-> FALSE, panic |-> FALSE]
    ELSE IF ~valid(action, g) THEN [g |-> g, ok |-> FALSE, panic |-> FALSE]
    ELSE LET paid == pay(action, g)
         IN IF ~paid.ok THEN [g |-> paid.g, ok |-> FALSE, panic |-> FALSE]
            ELSE [g |-> Push(paid.g, CardDef[card_id].activated_abilities[ability_id + 1].effect,
                             action, CardDef[card_id].owner_id, KindAbility),
                  ok |-> TRUE, panic |-> FALSE]

\* play_ability: [g, ok, panic]; ok is the value returned, panic says that the
\* unwrap of the mana ability's resolve_choice aborts
play_ability(g, card_id, ability_id, action) ==
    IF ~HasCard(g, card_id) THEN [g |-> g, ok |-> FALSE, panic |-> FALSE]
    ELSE IF ability_id + 1 > Len(CardDef[card_id].activated_abilities)
    THEN [g |-> g, ok |-> FALSE, panic |-> FALSE]
    ELSE LET ability == CardDef[card_id].activated_abilities[ability_id + 1]
             player_id == CardDef[card_id].owner_id
         IN IF ~valid(action, g) THEN [g |-> g, ok |-> FALSE, panic |-> FALSE]
            ELSE LET unwrapped(resolved) ==
                        IF resolved.ok
                        THEN [g |-> end_resolve(resolved.g), ok |-> TRUE, panic |-> FALSE]
                        ELSE [g |-> resolved.g, ok |-> FALSE, panic |-> TRUE]
                     after_pay(paid) ==
                        IF ~paid.ok THEN [g |-> paid.g, ok |-> FALSE, panic |-> FALSE]
                        ELSE IF ability.effect.k = "Mana"
                        THEN unwrapped(resolve_choice(
                                start_resolve(Push(paid.g, ability.effect, action, player_id,
                                                   KindAbility)),
                                [player_id |-> player_id, choice |-> action.choices.effect,
                                 effect |-> ability.effect]))
                        ELSE [g |-> Push(paid.g, ability.effect, action, player_id, KindAbility),
                              ok |-> TRUE, panic |-> FALSE]
                 IN after_pay(pay(action, g))

-----------------------------------------------------------------------------
(* The state after construction: Game::new with two players, player 1 active,
   the cards put in their zones *)

InitGame ==
    [players |-> [p \in Players |->
                    [life |-> DefaultPlayerLife, mana |-> ManaNew,
                     library |-> IF p = 1 THEN <<Swamp>> ELSE <<>>]],
     cards |-> [c \in CardIds |-> CardStateReset(c, InitialZone[c])],
     stack |-> <<>>,
     resolve |-> None,
     turn |-> TurnNew(1),
     status |-> StatusPlay,
     pushes |-> 0]

\* the last call of the driver: the function, the card and the actor it was
\* called with (0 where it takes none), the value returned
Called(op, card, player, ok, next) ==
    [op |-> op, card |-> card, player |-> player, ok |-> ok, next |-> next]

Init ==
    /\ game = InitGame
    /\ last = Called("new", 0, 0, TRUE, None)
    /\ nops = 0
    /\ passers = {}

\* one call of the driver that leaves the game g.  A call that is rejected and
\* leaves the game as it was is a stuttering step of the specification.
CallWithin(bound, g, called) ==
    /\ nops < bound
    /\ called.ok \/ g # game
    /\ game' = g
    /\ last' = called
    /\ nops' = nops + 1
    /\ passers' = IF called.op = "pass_priority"
                  THEN (IF IsSome(game.turn.priority)
                        THEN passers \cup {Unwrap(game.turn.priority).player_id}
                        ELSE passers)
                  ELSE IF g.turn.priority # game.turn.priority THEN {} ELSE passers

Call(g, called) == CallWithin(MaxOps, g, called)

-----------------------------------------------------------------------------
(* The choices a driver supplies *)

G1 == ManaFrom(<<"G">>)

B2 == ManaFrom(<<"B", "B">>)

\* the cost choices tried for a cost: none, and one that names the mana and the
\* source card the cost asks for (a cost of None reads no choice)
CostChoices(cost, c) ==
    CASE cost.k = "None" -> {ChoiceNone}
      [] cost.k = "Mana" -> {ChoiceNone, ChoiceMana(G1)}
      [] cost.k = "And" -> {ChoiceCard(c), ChoiceAnd(<<ChoiceMana(G1), ChoiceCard(c)>>)}
      [] OTHER -> {ChoiceNone, ChoiceCard(c)}

\* the target choices tried for a target (a target of None reads no choice, an
\* Owner target is filled in by the factory)
TargetChoices(target) ==
    IF target.k \in {"None", "Owner"} THEN {ChoiceNone}
    ELSE {ChoiceNone, ChoicePlayer(1), ChoicePlayer(2)}

\* the effect choices tried for an ability: a mana choice for a wildcard effect
EffectChoices(effect) ==
    IF effect.k = "Mana" /\ ManaHas(effect.mana, "any")
    THEN {ChoiceNone, ChoiceMana(G1), ChoiceMana(B2)}
    ELSE {ChoiceNone}

\* the caller's choices written into an action; a target choice of None keeps
\* the choice set_required_target filled in
WithChoices(a, cost, target, effect) ==
    [a EXCEPT !.choices.cost = cost,
              !.choices.target = IF target = ChoiceNone THEN @ ELSE target,
              !.choices.effect = effect]

\* create_card_action: the action of a card that can be played now, as an Option
\* (None for a card without play ability, such as a land)
create_card_action(g, card_id, player_id) ==
    IF ~can_play_card(g, card_id, player_id) THEN None
    ELSE IF ~HasCard(g, card_id) THEN None
    ELSE IF IsSome(CardDef[card_id].play_ability)
    THEN Some(ActionNew(player_id, card_id, CardDef[card_id].cost,
                        Unwrap(CardDef[card_id].play_ability).target, EffectNone))
    ELSE None

\* create_ability_action, as an Option
create_ability_action(g, player_id, card_id, ability_id) ==
    IF ~HasCard(g, card_id) THEN None
    ELSE IF ability_id + 1 > Len(CardDef[card_id].activated_abilities) THEN None
    ELSE Some(ActionNew(player_id, card_id,
                        CardDef[card_id].activated_abilities[ability_id + 1].cost,
                        CardDef[card_id].activated_abilities[ability_id + 1].target,
                        EffectNone))

\* the action of a card a driver holds: the action create_card_action returned
\* at some moment, or one made with Action::new and the setters (the only way
\* for a land)
CardAction(card_id, player_id) ==
    ActionNew(player_id, card_id, CardDef[card_id].cost,
              IF IsSome(CardDef[card_id].play_ability)
              THEN Unwrap(CardDef[card_id].play_ability).target ELSE TargetNone,
              EffectNone)

\* the actions a driver submits to play_card
CardActions(card_id, player_id) ==
    {WithChoices(CardAction(card_id, player_id), cost, target, ChoiceNone) :
        cost \in CostChoices(CardDef[card_id].cost, card_id),
        target \in TargetChoices(CardAction(card_id, player_id).required.target)}

\* the cards with an activated ability
AbilityCards == {c \in CardIds : CardDef[c].activated_abilities # <<>>}

\* the actions a driver submits to play_ability for ability 0 of a card
AbilityActions(card_id, player_id) ==
    {WithChoices(Unwrap(create_ability_action(game, player_id, card_id, 0)),
                 cost, target, effect) :
        cost \in CostChoices(CardDef[card_id].activated_abilities[1].cost, card_id),
        target \in TargetChoices(CardDef[card_id].activated_abilities[1].target),
        effect \in EffectChoices(CardDef[card_id].activated_abilities[1].effect)}

ResolveChoices ==
    {ResolveChoiceDefault}
        \cup {[choice |-> ChoiceCard(c), player_id |-> 1, effect |-> EffectDiscard(1)] :
                c \in {Forest, Island, Bolt}}

-----------------------------------------------------------------------------
(* The calls *)

ChangeSteps == {"Upkeep", "Precombat", "CombatBegin", "CombatEnd", "Postcombat", "End"}

\* the steps of a turn in their order: the driver walks them forward, it may skip
\* steps, and pass_turn starts the next turn at Untap
StepOrder ==
    <<"Untap", "Upkeep", "Draw", "Precombat", "CombatBegin", "DeclareAttackers",
      "DeclareBlockers", "CombatDamage", "CombatEnd", "Postcombat", "End", "Cleanup">>

StepIndex(step) == CHOOSE i \in 1..Len(StepOrder) : StepOrder[i] = step

Enters(phase) == StepIndex(game.turn.step) < StepIndex(phase)

\* upkeep_step, precombat_step, combat_begin_step, combat_end_step,
\* postcombat_step, end_step
ChangeStep ==
    \E phase \in ChangeSteps :
        /\ Enters(phase)
        /\ Call(change_step(game, phase), Called(phase, 0, 0, TRUE, None))

UntapStep ==
    /\ game.turn.step = "Untap"
    /\ Call(untap_step(game), Called("untap_step", 0, 0, TRUE, None))

DrawStep ==
    /\ Enters("Draw")
    /\ Call(draw_step(game), Called("draw_step", 0, 0, TRUE, None))

DeclareAttackersStepStart ==
    /\ Enters("DeclareAttackers")
    /\ Call(declare_attackers_step_start(game),
            Called("declare_attackers_step_start", 0, 0, TRUE, None))

DeclareAttackersStepEnd ==
    /\ game.turn.step = "DeclareAttackers"
    /\ Call(declare_attackers_step_end(game),
            Called("declare_attackers_step_end", 0, 0, TRUE, None))

DeclareBlockersStepStart ==
    /\ Enters("DeclareBlockers")
    /\ Call(declare_blockers_step_start(game),
            Called("declare_blockers_step_start", 0, 0, TRUE, None))

DeclareBlockersStepEnd ==
    /\ game.turn.step = "DeclareBlockers"
    /\ Call(declare_blockers_step_end(game),
            Called("declare_blockers_step_end", 0, 0, TRUE, None))

CleanupStep ==
    /\ Enters("Cleanup")
    /\ Call(cleanup_step(game), Called("cleanup_step", 0, 0, TRUE, None))

PassPriority == Call(pass_priority(game), Called("pass_priority", 0, 0, TRUE, None))

PassTurn == Call(pass_turn(game), Called("pass_turn", 0, 0, TRUE, None))

PlayCard ==
    \E card_id \in CardIds, player_id \in Players :
        \E action \in CardActions(card_id, player_id) :
            \E r \in {play_card(game, card_id, action)} :
                Call(r.g, Called("play_card", card_id, player_id, r.ok, None))

PlayAbility ==
    \E card_id \in AbilityCards, player_id \in Players :
        \E action \in AbilityActions(card_id, player_id) :
            \E r \in {play_ability(game, card_id, 0, action)} :
                /\ ~r.panic
                /\ Call(r.g, Called("play_ability", card_id, player_id, r.ok, None))

StartResolve ==
    /\ game.stack # <<>>
    /\ Call(start_resolve(game), Called("start_resolve", 0, 0, TRUE, None))

ResolveChoice ==
    \E choice \in ResolveChoices :
        \E r \in {resolve_choice(game, choice)} :
            Call(r.g, Called("resolve_choice", 0, 0, r.ok, r.next))

EndResolve ==
    /\ IsSome(game.resolve)
    /\ Call(end_resolve(game), Called("end_resolve", 0, 0, TRUE, None))

Next ==
    \/ ChangeStep
    \/ UntapStep
    \/ DrawStep
    \/ DeclareAttackersStepStart
    \/ DeclareAttackersStepEnd
    \/ DeclareBlockersStepStart
    \/ DeclareBlockersStepEnd
    \/ CleanupStep
    \/ PassPriority
    \/ PassTurn
    \/ PlayCard
    \/ PlayAbility
    \/ StartResolve
    \/ ResolveChoice
    \/ EndResolve

Spec == Init /\ [][Next]_vars

-----------------------------------------------------------------------------
(* Mana::enough applied to bounded pools and costs: the pool is the mana pool of
   player 1 after construction, every call asks whether it is enough for one
   cost *)

\* the largest amount of one colour in a pool or a cost
MaxMana == 2

\* the pools: amounts of two colours and of colourless mana
Pools ==
    {[ManaNew EXCEPT !["red"] = r, !["green"] = g, !["colorless"] = n] :
        r \in 0..MaxMana, g \in 0..MaxMana, n \in 0..MaxMana}

\* the costs: amounts of two colours, of colourless mana and of mana of any colour
Costs ==
    {[ManaNew EXCEPT !["red"] = r, !["green"] = g, !["colorless"] = n, !["any"] = a] :
        r \in 0..MaxMana, g \in 0..MaxMana, n \in 0..MaxMana, a \in 0..MaxMana}

InitMana ==
    /\ game \in {[InitGame EXCEPT !.players[1].mana = pool] : pool \in Pools}
    /\ last = Called("new", 0, 0, TRUE, None)
    /\ nops = 0
    /\ passers = {}

\* game.players[1].mana.enough(&cost); the call leaves the game as it is
Enough ==
    \E cost \in Costs :
        /\ nops < MaxOps
        /\ last' = Called("enough", 0, 1, enough(game.players[1].mana, cost), Some(cost))
        /\ nops' = nops + 1
        /\ UNCHANGED <<game, passers>>

NextMana == Enough

SpecMana == InitMana /\ [][NextMana]_vars

-----------------------------------------------------------------------------
(* Combat: games that hold creatures on the battlefield, player 1 active, and a
   driver that declares attackers and blockers and walks the combat damage
   step *)

\* the number of calls of a combat
MaxCombatOps == 6

\* the largest damage a driver asks to assign
MaxDamage == 4

\* the most blockers a driver declares in one call
MaxBlockers == 2

\* the cards of the games
CombatCards ==
    {{Knight, WallA, WallB}, {Trampler, Goblin, WallA},
     {Striker, Bear, Ogre, Sentry}, {Bear, Spirit, Cub, City, Duelist},
     {Hawk, Bat, Spider, Goblin}, {Asp, Giant}, {Boar, WallA}}

\* Game::new, add_card and put_on_battlefield for every card
CombatGame(cards) ==
    [players |-> [p \in Players |->
                    [life |-> DefaultPlayerLife, mana |-> ManaNew, library |-> <<>>]],
     cards |-> [c \in cards |-> CardStateReset(c, "Battlefield")],
     stack |-> <<>>,
     resolve |-> None,
     turn |-> TurnNew(1),
     status |-> StatusPlay,
     pushes |-> 0]

InitCombat ==
    /\ game \in {CombatGame(cards) : cards \in CombatCards}
    /\ last = Called("new", 0, 0, TRUE, None)
    /\ nops = 0
    /\ passers = {}

\* the lists of blockers a driver declares: cards of the game, none twice
BlockerLists ==
    {<<>>} \cup {<<b>> : b \in DOMAIN game.cards}
           \cup ({<<b, c>> : b \in DOMAIN game.cards, c \in DOMAIN game.cards}
                    \ {<<b, b>> : b \in DOMAIN game.cards})

\* the damage step is open: the blockers are declared and no damage was dealt
InDamageStep ==
    game.turn.step = "CombatDamage" /\ ~(last.op = "combat_damage_step_end" /\ last.ok)

\* declare_attacker; the driver attacks the other player
DeclareAttacker ==
    \E attacker_id \in DOMAIN game.cards, target \in Players \ {game.turn.active_player} :
        /\ Enters("DeclareBlockers")
        /\ CallWithin(MaxCombatOps, declare_attacker(game, attacker_id, target),
                      Called("declare_attacker", attacker_id, target, TRUE, None))

FastDeclareAttacker ==
    \E attacker_id \in DOMAIN game.cards :
        /\ Enters("DeclareAttackers")
        /\ CallWithin(MaxCombatOps, fast_declare_attacker(game, attacker_id),
                      Called("fast_declare_attacker", attacker_id, 0, TRUE, None))

FastDeclareBlockers ==
    \E attacker_id \in get_attackers(game), blocker_ids \in BlockerLists :
        /\ game.turn.step = "DeclareAttackers"
        /\ CallWithin(MaxCombatOps, fast_declare_blockers(game, blocker_ids, attacker_id),
                      Called("fast_declare_blockers", attacker_id, 0, TRUE, Some(blocker_ids)))

CombatDamageStepStart ==
    /\ game.turn.step = "DeclareBlockers"
    /\ CallWithin(MaxCombatOps, combat_damage_step_start(game),
                  Called("combat_damage_step_start", 0, 0, TRUE, None))

ResetCombatAssignments ==
    \E attacker_id \in get_attackers(game) :
        /\ InDamageStep
        /\ CallWithin(MaxCombatOps, reset_combat_assignments(game, attacker_id),
                      Called("reset_combat_assignments", attacker_id, 0, TRUE, None))

AssignCombatDamage ==
    \E attacker_id \in get_attackers(game), blocker_id \in get_blockers(game),
       attack_type \in SeqToSet(AttackTypes), damage \in (-1)..MaxDamage :
        \E r \in {assign_combat_damage(game, attacker_id, blocker_id, attack_type, damage)} :
            /\ InDamageStep
            /\ CallWithin(MaxCombatOps, r.g,
                          Called("assign_combat_damage", attacker_id, blocker_id, r.ok,
                                 Some(<<attack_type, damage>>)))

IsCombatDamageAssigned ==
    \E r \in {is_combat_damage_assigned(game)} :
        /\ InDamageStep
        /\ CallWithin(MaxCombatOps, r.g,
                      Called("is_combat_damage_assigned", 0, 0, r.ok, None))

\* combat_damage_step_end; the call record keeps whether the damage was dealt
CombatDamageStepEnd ==
    \E gate \in {is_combat_damage_assigned(game)} :
        /\ InDamageStep
        /\ CallWithin(MaxCombatOps, combat_damage_step_end(game),
                      Called("combat_damage_step_end", 0, 0, gate.ok, None))

\* put_on_graveyard, called once the blockers are declared on an attacker or a
\* blocker that is on the battlefield, as the effect of a spell resolved during
\* the combat does
PutOnGraveyard ==
    \E card_id \in get_attackers(game) \cup get_blockers(game) :
        /\ get_blockers(game) # {}
        /\ game.cards[card_id].zone = "Battlefield"
        /\ CallWithin(MaxCombatOps, put_on_graveyard(game, card_id),
                      Called("put_on_graveyard", card_id, 0, TRUE, None))

NextCombat ==
    \/ DeclareAttacker
    \/ FastDeclareAttacker
    \/ FastDeclareBlockers
    \/ CombatDamageStepStart
    \/ ResetCombatAssignments
    \/ AssignCombatDamage
    \/ IsCombatDamageAssigned
    \/ CombatDamageStepEnd
    \/ PutOnGraveyard
    \/ PassTurn
    \/ UntapStep

SpecCombat == InitCombat /\ [][NextCombat]_vars

-----------------------------------------------------------------------------
(* Damage dealt to players: games where the players hold a few points of life,
   every call deals an amount of damage to one of them *)

\* the largest life a player starts with
MaxLife == 3

\* the largest amount of damage of one call
MaxHit == 5

\* the number of calls
MaxDamageOps == 3

InitDamage ==
    /\ game \in {[InitGame EXCEPT !.players[1].life = l1, !.players[2].life = l2] :
                    l1 \in 1..MaxLife, l2 \in 1..MaxLife}
    /\ last = Called("new", 0, 0, TRUE, None)
    /\ nops = 0
    /\ passers = {}

TakeDamage ==
    \E player_id \in Players, damage \in 0..MaxHit :
        CallWithin(MaxDamageOps, take_damage(game, player_id, damage),
                   Called("take_damage", damage, player_id, TRUE, None))

DealPlayerDamage ==
    \E player_id \in Players, damage \in 0..MaxHit :
        CallWithin(MaxDamageOps, deal_player_damage(game, player_id, damage),
                   Called("deal_player_damage", damage, player_id, TRUE, None))

NextDamage == TakeDamage \/ DealPlayerDamage

SpecDamage == InitDamage /\ [][NextDamage]_vars

-----------------------------------------------------------------------------
(* Paying costs: games with a few permanents on the battlefield and a driver
   that builds an action with Action::new and set_required_cost, fills in the
   cost choice, and calls pay when valid accepts the action *)

\* the number of calls
MaxPayOps == 3

PayCards == {{Cub, Bear, City}, {Bear, Goblin, City}, {Spirit, Duelist}}

\* the costs asked for
PayCosts ==
    {CostTap(TargetSource), CostSacrifice(TargetSource), CostSacrifice(TargetCreature),
     CostAnd(<<CostTap(TargetSource), CostSacrifice(TargetCreature)>>)}

\* the cost choices: one card, or a conjunction of two cards
PayChoices(g) ==
    {ChoiceCard(c) : c \in DOMAIN g.cards}
        \cup ({ChoiceAnd(<<ChoiceCard(b), ChoiceCard(c)>>) : b, c \in DOMAIN g.cards}
                \ {ChoiceAnd(<<ChoiceCard(c), ChoiceCard(c)>>) : c \in DOMAIN g.cards})

\* the action of the owner of a card with a required cost and a cost choice
PayAction(card_id, cost, choice) ==
    [ActionNew(CardDef[card_id].owner_id, card_id, cost, TargetNone, EffectNone)
        EXCEPT !.choices.cost = choice]

\* the actions that valid accepts
PayActions(g) ==
    {a \in {PayAction(card_id, cost, choice) :
                card_id \in DOMAIN g.cards, cost \in PayCosts, choice \in PayChoices(g)} :
        valid(a, g)}

InitPay ==
    /\ game \in {CombatGame(cards) : cards \in PayCards}
    /\ last = Called("new", 0, 0, TRUE, None)
    /\ nops = 0
    /\ passers = {}

Pay ==
    \E a \in PayActions(game) :
        \E r \in {pay(a, game)} :
            CallWithin(MaxPayOps, r.g, Called("pay", a.card_id, a.player_id, r.ok, None))

NextPay == Pay

SpecPay == InitPay /\ [][NextPay]_vars

-----------------------------------------------------------------------------
(* Properties of the priority protocol, the stack and the resolve protocol *)

\* the player holds the open priority window
HoldsPriority(g, player_id) ==
    IsSome(g.turn.priority) /\ Unwrap(g.turn.priority).player_id = player_id

\* what a rejected call must leave alone: pools, life totals and libraries, the
\* zone and the tapped flag of every card, the waiting stack
Untouched(g, h) == g.players = h.players /\ g.cards = h.cards /\ g.stack = h.stack

\* C1: play_card and play_ability change the game only when a priority window is
\* open and the acting player is its holder; with no window, or with the other
\* player holding it, both leave the game as it was.
C1_PriorityRequired ==
    /\ \A card_id \in CardIds, player_id \in Players :
          \A action \in CardActions(card_id, player_id) :
              ~HoldsPriority(game, player_id) => play_card(game, card_id, action).g = game
    /\ \A card_id \in AbilityCards, player_id \in Players :
          \A action \in AbilityActions(card_id, player_id) :
              LET r == play_ability(game, card_id, 0, action)
              IN (~HoldsPriority(game, player_id) /\ ~r.panic) => r.g = game

\* C2: a rejected action (play_card does not play the card, play_ability returns
\* false) leaves pools, tapped flags, zones, life totals and the stack as they
\* were, also when one sub-cost of a conjunction cost cannot be paid.
C2_RejectedUnchanged ==
    /\ \A card_id \in CardIds, player_id \in Players :
          \A action \in CardActions(card_id, player_id) :
              LET r == play_card(game, card_id, action)
              IN ~r.ok => Untouched(r.g, game)
    /\ \A card_id \in AbilityCards, player_id \in Players :
          \A action \in AbilityActions(card_id, player_id) :
              LET r == play_ability(game, card_id, 0, action)
              IN (~r.ok /\ ~r.panic) => Untouched(r.g, game)

\* C3: the waiting stack is last in, first out: its entries lie in the order
\* they were pushed, and start_resolve takes the entry pushed last, leaving
\* every entry pushed before it waiting.
C3_StackLIFO ==
    /\ \A i, j \in 1..Len(game.stack) : i < j => game.stack[i].seq < game.stack[j].seq
    /\ game.stack # <<>> =>
          LET g == start_resolve(game)
          IN /\ IsSome(g.resolve)
             /\ Unwrap(g.resolve) \in SeqToSet(game.stack)
             /\ SeqToSet(g.stack) = SeqToSet(game.stack) \ {Unwrap(g.resolve)}
             /\ \A i \in 1..Len(g.stack) : g.stack[i].seq < Unwrap(g.resolve).seq

\* C3 witness: start_resolve has taken an entry pushed after the entries that
\* are still waiting.
C3_Witness ==
    /\ last.op = "start_resolve"
    /\ IsSome(game.resolve)
    /\ game.stack # <<>>
    /\ \A i \in 1..Len(game.stack) : game.stack[i].seq < Unwrap(game.resolve).seq

\* C4: after a successful resolve_choice on a sequence effect no sub-effect that
\* needs no decision is left at the front of the sequence: the call returns None
\* only when the sequence is consumed, and otherwise a request for the sub-effect
\* at the front, which needs a choice.
C4_AutoAdvance ==
    \A choice \in ResolveChoices :
        LET r == resolve_choice(game, choice)
        IN (IsSome(game.resolve) /\ Unwrap(game.resolve).effect.k = "And" /\ r.ok) =>
              LET rest == Unwrap(r.g.resolve).effect.effects
              IN /\ r.next = None => rest = <<>>
                 /\ rest # <<>> =>
                       /\ get_required_choice(Head(rest)) # ChoiceNone
                       /\ IsSome(r.next)
                       /\ Unwrap(r.next).effect = Head(rest)

\* the mana a mana ability produces: the mana of the effect, or the mana chosen
\* where the effect is mana of any colour
Produced(effect, action) ==
    IF ~ManaHas(effect.mana, "any") THEN effect.mana
    ELSE IF action.choices.effect.k = "Mana" THEN action.choices.effect.mana
    ELSE ManaNew

\* the entry is the entry of a triggered ability of a card
IsTriggered(entry) ==
    /\ entry.kind = KindAbility
    /\ \E t \in 1..Len(CardDef[entry.action.card_id].triggered_abilities) :
            entry.effect = CardDef[entry.action.card_id].triggered_abilities[t].effect

\* C5: when play_ability of an ability whose effect is Mana returns true, the
\* mana is in the pool of the player who played the ability, the resolving slot
\* is empty, and the waiting stack is what it was before the call followed by the
\* abilities triggered by paying the cost: the entry of the mana ability itself
\* (the entry pushed last) is not waiting.
C5_ManaAbilitySynchronous ==
    \A card_id \in AbilityCards, player_id \in Players :
        \A action \in AbilityActions(card_id, player_id) :
            LET effect == CardDef[card_id].activated_abilities[1].effect
                r == play_ability(game, card_id, 0, action)
            IN (effect.k = "Mana" /\ r.ok) =>
                  /\ r.g.resolve = None
                  /\ r.g.players[player_id].mana =
                        ManaAdd(game.players[player_id].mana, Produced(effect, action))
                  /\ Len(r.g.stack) >= Len(game.stack)
                  /\ SubSeq(r.g.stack, 1, Len(game.stack)) = game.stack
                  /\ r.g.pushes > game.pushes
                  /\ \A i \in Len(game.stack) + 1 .. Len(r.g.stack) :
                        IsTriggered(r.g.stack[i]) /\ r.g.stack[i].seq < r.g.pushes

\* C5 witness: the mana ability of the City has been played, its mana is in the
\* pool, nothing is resolving and the ability its tap triggered is waiting.
C5_Witness ==
    /\ last.op = "play_ability" /\ last.ok /\ last.card = City
    /\ game.players[last.player].mana # ManaNew
    /\ game.resolve = None
    /\ game.stack # <<>> /\ IsTriggered(Last(game.stack))

\* C6: all_passed holds only when every player has passed, as the holder, since
\* the window was opened or reset; the passes of one player never make it hold.
C6_PriorityClosure ==
    (IsSome(game.turn.priority) /\ all_passed(game, Unwrap(game.turn.priority))) =>
        passers = Players

\* C6 witness: the second of two pass_priority calls in one window has made
\* all_passed hold.
C6_Witness ==
    /\ last.op = "pass_priority"
    /\ IsSome(game.turn.priority)
    /\ all_passed(game, Unwrap(game.turn.priority))
    /\ passers = Players

\* C7: after play_card or play_ability succeeds no player is recorded as having
\* passed in the open priority window.
C7_SuccessResetsPasses ==
    /\ \A card_id \in CardIds, player_id \in Players :
          \A action \in CardActions(card_id, player_id) :
              LET r == play_card(game, card_id, action)
              IN (r.ok /\ IsSome(r.g.turn.priority)) => Unwrap(r.g.turn.priority).passes = {}
    /\ \A card_id \in AbilityCards, player_id \in Players :
          \A action \in AbilityActions(card_id, player_id) :
              LET r == play_ability(game, card_id, 0, action)
              IN (r.ok /\ IsSome(r.g.turn.priority)) => Unwrap(r.g.turn.priority).passes = {}

\* C8: pass_priority records the holder as passed and hands priority to the
\* player following the holder, so with two players the holder alternates.
C8_PassAdvances ==
    IsSome(game.turn.priority) =>
        LET holder == Unwrap(game.turn.priority).player_id
            after == Unwrap(pass_priority(game).turn.priority)
        IN /\ holder \in after.passes
           /\ after.player_id = get_next_player(holder)
           /\ after.player_id # holder

\* C9: play_card of a card that is not an instant takes effect only when the
\* waiting stack is empty, the step is a main phase and the actor is the active
\* player; an instant is played in any step when its owner holds priority (and
\* the action is valid).
C9_SorcerySpeedTiming ==
    /\ \A card_id \in CardIds, player_id \in Players :
          \A action \in CardActions(card_id, player_id) :
              LET r == play_card(game, card_id, action)
              IN (CardDef[card_id].kind # "Instant" /\ (r.ok \/ r.g # game)) =>
                    /\ game.stack = <<>>
                    /\ StepMain(game.turn.step)
                    /\ game.turn.active_player = player_id
    /\ \A card_id \in CardIds :
          (CardDef[card_id].kind = "Instant" /\ HoldsPriority(game, CardDef[card_id].owner_id)) =>
              /\ create_card_action(game, card_id, CardDef[card_id].owner_id) =
                    Some(CardAction(card_id, CardDef[card_id].owner_id))
              /\ \A action \in CardActions(card_id, CardDef[card_id].owner_id) :
                    valid(action, game) => play_card(game, card_id, action).ok

\* C9 witness: a sorcery played in the main phase waits on the stack, and the
\* other player, holding priority, has played an instant on top of it.
C9_Witness ==
    /\ last.op = "play_card" /\ last.ok /\ CardDef[last.card].kind = "Instant"
    /\ game.turn.active_player # last.player
    /\ \E i \in 1..Len(game.stack) :
            /\ game.stack[i].kind.k = "Spell"
            /\ CardDef[game.stack[i].kind.id].kind = "Sorcery"

\* the lands
Lands == {c \in CardIds : CardDef[c].kind = "Land"}

\* C10: lands_played never exceeds the land limit; a land play beyond the limit
\* is rejected; an accepted land play puts the card on the battlefield, counts
\* it and pushes no stack entry; after pass_turn the counter is zero.
C10_LandLimit ==
    /\ game.turn.lands_played <= DefaultLandLimit
    /\ \A card_id \in Lands, player_id \in Players :
          \A action \in CardActions(card_id, player_id) :
              LET r == play_card(game, card_id, action)
              IN /\ game.turn.lands_played >= DefaultLandLimit => (~r.ok /\ r.g = game)
                 /\ r.ok => /\ r.g.cards[card_id].zone = "Battlefield"
                            /\ r.g.turn.lands_played = game.turn.lands_played + 1
                            /\ r.g.stack = game.stack
                            /\ r.g.pushes = game.pushes
    /\ pass_turn(game).turn.lands_played = 0

\* C10 witness: a land has been played from the hand, a second land is in the
\* hand of the active player, who holds priority in a main phase with the stack
\* empty, and the limit is reached.
C10_Witness ==
    /\ last.op = "play_card" /\ last.ok /\ last.card \in Lands
    /\ InitialZone[last.card] = "Hand" /\ game.cards[last.card].zone = "Battlefield"
    /\ game.turn.lands_played = DefaultLandLimit
    /\ game.stack = <<>> /\ StepMain(game.turn.step)
    /\ HoldsPriority(game, game.turn.active_player)
    /\ \E c \in Lands : /\ game.cards[c].zone = "Hand"
                        /\ CardDef[c].owner_id = game.turn.active_player

-----------------------------------------------------------------------------
(* Properties of the mana arithmetic and of the effects *)

Colored == {"white", "red", "green", "blue", "black"}

\* the sum of the amounts of the five colours
ColoredTotal(m) == m["white"] + m["red"] + m["green"] + m["blue"] + m["black"]

\* the pool covers the cost: every coloured requirement in kind, the colourless
\* and the any-colour requirement from what is left of the pool after that
Covers(pool, cost) ==
    /\ \A c \in Colored : pool[c] >= cost[c]
    /\ cost["colorless"] + cost["any"]
            <= (ColoredTotal(pool) - ColoredTotal(cost)) + pool["colorless"]

\* C11: enough(pool, cost) is true exactly when the pool covers every coloured
\* requirement of the cost in kind and its colourless and any-colour
\* requirements from the surplus left after the coloured ones are paid.
C11_ManaSufficiency ==
    \A cost \in Costs :
        enough(game.players[1].mana, cost) <=> Covers(game.players[1].mana, cost)

\* the amount of mana in a pool, whatever its colour
ManaTotal(m) == ColoredTotal(m) + m["colorless"]

\* C12: when the owner of the City plays its ability with a mana choice and the
\* ability triggered by the tap is resolved, the owner's pool has gained the
\* chosen mana, which is exactly one mana, and the owner's life is one less.
C12_CityOfBrass ==
    \A action \in AbilityActions(City, CardDef[City].owner_id) :
        LET owner == CardDef[City].owner_id
            r == play_ability(game, City, 0, action)
        IN (action.choices.effect.k = "Mana" /\ ~r.panic /\ r.ok) =>
              /\ r.g.players[owner].mana =
                    ManaAdd(game.players[owner].mana, action.choices.effect.mana)
              /\ ManaTotal(r.g.players[owner].mana) = ManaTotal(game.players[owner].mana) + 1
              /\ LET s == resolve_choice(start_resolve(r.g), ResolveChoiceDefault)
                 IN /\ s.ok
                    /\ end_resolve(s.g).players[owner].life = game.players[owner].life - 1

\* the effect an entry applies next: the front of a sequence, or the effect itself
FrontEffect(resolve) ==
    IF resolve.effect.k = "And"
    THEN (IF resolve.effect.effects = <<>> THEN EffectNone ELSE Head(resolve.effect.effects))
    ELSE resolve.effect

\* the answers a caller can pass for a discard of one card: any card, with the
\* player and the effect fields as the caller fills them in
DiscardAnswers ==
    {[choice |-> ChoiceCard(c), player_id |-> p, effect |-> e] :
        c \in CardIds, p \in Players, e \in {EffectDiscard(1), EffectNone}}

\* C13: while an entry is resolving whose next effect is Discard(1), whatever
\* answer the caller passes, resolve_choice returns InvalidChoice and leaves
\* every card where it is unless the chosen card is owned by the player who has
\* to discard (the player the engine's request names) and is in that player's
\* hand.
C13_DiscardValidated ==
    (IsSome(game.resolve) /\ FrontEffect(Unwrap(game.resolve)) = EffectDiscard(1)
        /\ IsSome(get_next_resolve_choice(Unwrap(game.resolve)))) =>
        LET discarder == Unwrap(get_next_resolve_choice(Unwrap(game.resolve))).player_id
        IN \A answer \in DiscardAnswers :
              LET r == resolve_choice(game, answer)
              IN (answer.choice.id \notin Hand(game, discarder)) =>
                    /\ ~r.ok /\ r.err = "InvalidChoice"
                    /\ r.g.cards = game.cards

\* the kinds of card that stay on the battlefield
Permanents == {"Artifact", "Enchantment", "Creature", "Land"}

\* C14: end_resolve puts the card of a resolving spell on the battlefield when it
\* is an artifact, enchantment, creature or land and on the graveyard when it is
\* an instant or sorcery, and leaves every card where it is for an ability; in
\* both cases nothing is resolving afterwards and the active player holds a
\* priority window with no pass recorded.
C14_EndResolve ==
    IsSome(game.resolve) =>
        LET resolve == Unwrap(game.resolve)
            g == end_resolve(game)
        IN /\ g.resolve = None
           /\ g.turn.priority = Some([player_id |-> game.turn.active_player, passes |-> {}])
           /\ resolve.kind.k = "Spell" =>
                 g.cards[resolve.kind.id].zone =
                    IF CardDef[resolve.kind.id].kind \in Permanents
                    THEN "Battlefield" ELSE "Graveyard"
           /\ resolve.kind.k = "Ability" =>
                 \A c \in CardIds : g.cards[c].zone = game.cards[c].zone

\* C14 witness: end_resolve has put a resolved sorcery on the graveyard, emptied
\* the resolving slot and opened a window for the active player.
C14_Witness ==
    /\ last.op = "end_resolve"
    /\ game.cards[Rummage].zone = "Graveyard"
    /\ game.resolve = None
    /\ HoldsPriority(game, game.turn.active_player)

-----------------------------------------------------------------------------
(* Properties of combat *)

\* a card that may attack: an untapped creature without summoning sickness and
\* without Defender, on the battlefield, controlled by the active player
LegalAttacker(g, c) ==
    /\ c \in DOMAIN g.cards
    /\ CardDef[c].kind = "Creature"
    /\ g.cards[c].zone = "Battlefield"
    /\ CardDef[c].owner_id = g.turn.active_player
    /\ ~g.cards[c].tapped
    /\ ~g.cards[c].sick
    /\ "Defender" \notin CardDef[c].static_abilities

\* C20: declare_attacker records an attacker only for an untapped creature
\* without summoning sickness and without Defender that is on the battlefield
\* and controlled by the active player; for every other card, and for an id
\* that is no card, it leaves the combat state as it was.
C20_DeclareAttackerLegality ==
    \A c \in Catalogue \cup {0}, target \in Players :
        LET after == declare_attacker(game, c, target).turn.combat
        IN IF LegalAttacker(game, c)
           THEN /\ \E i \in DOMAIN after.attackers :
                        after.attackers[i].id = c /\ after.attackers[i].target = target
                /\ after.blockers_toughness = game.turn.combat.blockers_toughness
           ELSE after = game.turn.combat

\* declare_attacker has recorded the one creature that may attack among a
\* creature with Defender, a creature with summoning sickness and a land
C20_Witness ==
    /\ last.op = "declare_attacker"
    /\ get_attackers(game) = {Bear}
    /\ {Spirit, Cub, City} \subseteq DOMAIN game.cards
    /\ ~LegalAttacker(game, Spirit) /\ ~LegalAttacker(game, Cub) /\ ~LegalAttacker(game, City)

\* the declared attackers without Trample, by their place
PlainAttackers(g) ==
    {i \in DOMAIN g.turn.combat.attackers :
        "Trample" \notin CardDef[g.turn.combat.attackers[i].id].static_abilities}

\* the damage every attack of the attackers without Trample assigns is at most
\* the attack's power
AssignedWithinPower(g) ==
    \A i \in PlainAttackers(g) : \A t \in DOMAIN g.turn.combat.attackers[i].attacks :
        MapSum(g.turn.combat.attackers[i].attacks[t].assignments)
            <= g.turn.combat.attackers[i].attacks[t].power.default

\* every attacker is without Trample and has a blocker
AllBlocked(g) ==
    /\ PlainAttackers(g) = DOMAIN g.turn.combat.attackers
    /\ \A i \in DOMAIN g.turn.combat.attackers : g.turn.combat.attackers[i].blockers # <<>>

\* C15: in the combat damage step, whatever was reset and assigned, every attack
\* of an attacker without Trample assigns at most the attack's power to its
\* blockers in total, and when every attacker is such an attacker and has a
\* blocker, combat_damage_step_end leaves the life of every player as it was.
C15_DamageConservation ==
    game.turn.step = "CombatDamage" =>
        /\ AssignedWithinPower(game)
        /\ AllBlocked(game) =>
                \A p \in Players :
                    combat_damage_step_end(game).players[p].life = game.players[p].life

\* C15, the part that holds: a blocked attacker without Trample deals no damage
\* to a player
C15_BlockedDealsNoPlayerDamage ==
    (game.turn.step = "CombatDamage" /\ AllBlocked(game)) =>
        \A p \in Players :
            combat_damage_step_end(game).players[p].life = game.players[p].life

\* the total toughness of a list of blockers
RECURSIVE TotalToughness(_, _)
TotalToughness(g, blockers) ==
    IF blockers = <<>> THEN 0
    ELSE g.cards[Head(blockers)].toughness + TotalToughness(g, Tail(blockers))

\* the regular attack of an attacker record assigns to every blocker at least
\* the blocker's toughness
CoversBlockers(g, attacker) ==
    \A b \in SeqToSet(attacker.blockers) :
        Assigned(attacker, "Regular", b) >= g.cards[b].toughness

\* the damage the damage passes of combat_damage_step_end deal to a player
PlayerDamage(g, p) == g.players[p].life - combat_damage_step_end(g).players[p].life

\* the damage a lone attacker with power P deals to the defending player beyond
\* blockers of total toughness T
Spillover(P, T) == IF T < P THEN P - T ELSE 0

\* C16: a lone attacker with Trample and power P whose blockers have total
\* toughness T, with an assignment (automatic or accepted from the caller) that
\* covers every blocker's toughness, deals P - T to the defending player when the
\* damage is dealt if T < P, and 0 if T >= P.
C16_TrampleSpillover ==
    (InDamageStep /\ Len(game.turn.combat.attackers) = 1) =>
        LET attacker == game.turn.combat.attackers[1]
        IN (/\ "Trample" \in CardDef[attacker.id].static_abilities
            /\ CoversBlockers(game, attacker)
            /\ is_combat_damage_assigned(game).ok)
            => PlayerDamage(game, attacker.target)
                    = Spillover(CardDef[attacker.id].power,
                                TotalToughness(game, attacker.blockers))

\* a creature with first strike or double strike
StrikesFirst(c) ==
    "FirstStrike" \in CardDef[c].static_abilities \/ "DoubleStrike" \in CardDef[c].static_abilities

\* a creature that hits in the regular pass: one without first strike, or one
\* with double strike
StrikesLast(c) ==
    "FirstStrike" \notin CardDef[c].static_abilities \/ "DoubleStrike" \in CardDef[c].static_abilities

\* the total power of the blockers of a list that are in the set hitters
RECURSIVE TotalPower(_, _)
TotalPower(blockers, hitters) ==
    IF blockers = <<>> THEN 0
    ELSE (IF Head(blockers) \in hitters THEN CardDef[Head(blockers)].power ELSE 0)
            + TotalPower(Tail(blockers), hitters)

\* the state after the first pass and after the regular pass of
\* combat_damage_step_end, before the dead are put on the graveyard
AfterFirstPass(g) == first_strike_pass(is_combat_damage_assigned(g).g)

AfterRegularPass(g) ==
    regular_pass(AfterFirstPass(g), hit_last(g, get_attackers(g)), hit_last(g, get_blockers(g)))

\* C17: when combat_damage_step_end deals the damage, the first pass is dealt by
\* the creatures with first strike or double strike only: an attacker takes the
\* power of its blockers that strike first, a blocker the first-strike damage
\* assigned to it.  The regular pass comes after it and is dealt only by the
\* creatures without first strike, or with double strike, that the first pass
\* left alive: a creature killed in the first pass deals no damage, and a
\* creature with first strike only deals none in the regular pass.
C17_FirstStrikeOrdering ==
    (InDamageStep /\ is_combat_damage_assigned(game).ok) =>
        \A i \in DOMAIN game.turn.combat.attackers :
            LET attacker == game.turn.combat.attackers[i]
                before == is_combat_damage_assigned(game).g
                first == AfterFirstPass(game)
                regular == AfterRegularPass(game)
                HitsFirst == {b \in DOMAIN game.cards : StrikesFirst(b)}
                HitsLast == {b \in DOMAIN game.cards :
                                StrikesLast(b) /\ first.cards[b].toughness > 0}
            IN /\ first.cards[attacker.id].toughness =
                    before.cards[attacker.id].toughness - TotalPower(attacker.blockers, HitsFirst)
               /\ regular.cards[attacker.id].toughness =
                    first.cards[attacker.id].toughness - TotalPower(attacker.blockers, HitsLast)
               /\ \A b \in SeqToSet(attacker.blockers) :
                    /\ first.cards[b].toughness =
                            before.cards[b].toughness
                                - (IF StrikesFirst(attacker.id)
                                   THEN Assigned(attacker, "FirstStrike", b) ELSE 0)
                    /\ regular.cards[b].toughness =
                            first.cards[b].toughness
                                - (IF /\ StrikesLast(attacker.id)
                                      /\ first.cards[attacker.id].toughness > 0
                                   THEN Assigned(attacker, "Regular", b) ELSE 0)

\* the damage was dealt in a combat of a 2/1 attacker with first strike and a
\* 4/2 blocker without: the blocker died in the first pass and the attacker is
\* undamaged
C17_Witness ==
    /\ last.op = "combat_damage_step_end" /\ last.ok
    /\ Len(game.turn.combat.attackers) = 1
    /\ game.turn.combat.attackers[1].id = Striker
    /\ game.turn.combat.attackers[1].blockers = <<Ogre>>
    /\ game.cards[Ogre].zone = "Graveyard"
    /\ game.cards[Striker].zone = "Battlefield"
    /\ game.cards[Striker].toughness = CardDef[Striker].toughness

\* the combat of the scenario: the 2/2 attacker with double strike is blocked by
\* the two 1/4 creatures and combat_damage_step_start has assigned the damage
KnightCombat ==
    /\ last.op = "combat_damage_step_start"
    /\ Len(game.turn.combat.attackers) = 1
    /\ game.turn.combat.attackers[1].id = Knight
    /\ SeqToSet(game.turn.combat.attackers[1].blockers) = {WallA, WallB}
    /\ \A c \in {Knight, WallA, WallB} : game.cards[c].zone = "Battlefield"

\* both attacks of the attacker assign 2 in total
KnightAssignsTwice ==
    /\ MapSum(game.turn.combat.attackers[1].attacks["FirstStrike"].assignments) = 2
    /\ MapSum(game.turn.combat.attackers[1].attacks["Regular"].assignments) = 2

\* C18 as stated: with automatic assignment the first-strike pass of the 2/2
\* double striker deals 2 in total and the regular pass 2 more, and after
\* combat_damage_step_end the attacker and both 1/4 blockers are still on the
\* battlefield and the defending player has lost no life.
C18_AllSurvive ==
    KnightCombat =>
        /\ KnightAssignsTwice
        /\ \A c \in {Knight, WallA, WallB} :
                combat_damage_step_end(game).cards[c].zone = "Battlefield"
        /\ PlayerDamage(game, 2) = 0

\* C18 amended: with automatic assignment the first-strike pass deals 2 and the
\* regular pass 2 more, all 4 to the blocker declared first, which is put on the
\* graveyard; the other blocker stays undamaged on the battlefield; the attacker
\* takes 1 from each blocker in the regular pass and is put on the graveyard;
\* the defending player loses no life.
C18_FirstBlockerAndAttackerDie ==
    KnightCombat =>
        LET attacker == game.turn.combat.attackers[1]
            after == combat_damage_step_end(game)
        IN /\ KnightAssignsTwice
           /\ Assigned(attacker, "FirstStrike", attacker.blockers[1]) = 2
           /\ Assigned(attacker, "Regular", attacker.blockers[1]) = 2
           /\ AfterRegularPass(game).cards[attacker.blockers[1]].toughness = 0
           /\ AfterRegularPass(game).cards[attacker.blockers[2]].toughness = 4
           /\ AfterRegularPass(game).cards[Knight].toughness = 0
           /\ after.cards[attacker.blockers[1]].zone = "Graveyard"
           /\ after.cards[attacker.blockers[2]].zone = "Battlefield"
           /\ after.cards[Knight].zone = "Graveyard"
           /\ PlayerDamage(game, 2) = 0

\* the damage of the scenario was dealt: the attacker and the blocker declared
\* first are on the graveyard, the other blocker is on the battlefield
C18_Witness ==
    /\ last.op = "combat_damage_step_end" /\ last.ok
    /\ Len(game.turn.combat.attackers) = 1
    /\ game.turn.combat.attackers[1].id = Knight
    /\ game.turn.combat.attackers[1].blockers = <<WallA, WallB>>
    /\ game.turn.combat.attackers[1].attacks["FirstStrike"].assignments = (WallA :> 2)
    /\ game.turn.combat.attackers[1].attacks["Regular"].assignments = (WallA :> 2)
    /\ game.cards[Knight].zone = "Graveyard"
    /\ game.cards[WallA].zone = "Graveyard"
    /\ game.cards[WallB].zone = "Battlefield"
    /\ game.players[2].life = DefaultPlayerLife

\* every attack of every attacker assigns to its blockers at least the smaller
\* of the blockers' total toughness and the attack's power
AssignedEnough(g) ==
    \A i \in DOMAIN g.turn.combat.attackers :
        \A t \in DOMAIN g.turn.combat.attackers[i].attacks :
            MapSum(g.turn.combat.attackers[i].attacks[t].assignments)
                >= Min(TotalToughness(g, g.turn.combat.attackers[i].blockers),
                       g.turn.combat.attackers[i].attacks[t].power.default)

\* combat_damage_step_end deals no damage: the cards and the players are as
\* they were
NoDamageDealt(g) ==
    /\ combat_damage_step_end(g).cards = g.cards
    /\ combat_damage_step_end(g).players = g.players
    /\ combat_damage_step_end(g).status = g.status

\* C19: in the combat damage step, is_combat_damage_assigned returns true only
\* if every attack of every attacker assigns at least min(total toughness of the
\* attacker's blockers, power of the attack), and while it returns false
\* combat_damage_step_end deals no damage.
C19_ClosingGate ==
    InDamageStep =>
        IF is_combat_damage_assigned(game).ok
        THEN AssignedEnough(game)
        ELSE NoDamageDealt(game)

\* C19, the part that holds: while the gate is false combat_damage_step_end
\* deals no damage
C19_GateFalseNoDamage ==
    (InDamageStep /\ ~is_combat_damage_assigned(game).ok) => NoDamageDealt(game)

\* the attack types a creature's keywords ask for: both for double strike,
\* first strike alone for first strike without double strike, regular otherwise
ExpectedAttacks(c) ==
    IF "DoubleStrike" \in CardDef[c].static_abilities THEN {"FirstStrike", "Regular"}
    ELSE IF "FirstStrike" \in CardDef[c].static_abilities THEN {"FirstStrike"}
    ELSE {"Regular"}

\* C21: the record declare_attacker makes for a creature that may attack has a
\* FirstStrike and a Regular attack if the creature has double strike, a
\* FirstStrike attack only if it has first strike and no double strike, a Regular
\* attack only otherwise, each attack with the creature's power, whatever other
\* keywords the creature has.
C21_AttackRecords ==
    \A c \in DOMAIN game.cards :
        LegalAttacker(game, c) =>
            LET after == declare_attacker(game, c, 2)
                attacks == after.turn.combat.attackers[AttackerIndex(after, c)].attacks
            IN /\ DOMAIN attacks = ExpectedAttacks(c)
               /\ \A t \in DOMAIN attacks : attacks[t] = AttackNew(CardDef[c].power)

\* C21, the part that holds: the records are as stated for every creature that
\* does not have first strike and double strike together
C21_AttackRecordsOneKeyword ==
    \A c \in DOMAIN game.cards :
        (/\ LegalAttacker(game, c)
         /\ ~({"FirstStrike", "DoubleStrike"} \subseteq CardDef[c].static_abilities)) =>
            LET after == declare_attacker(game, c, 2)
                attacks == after.turn.combat.attackers[AttackerIndex(after, c)].attacks
            IN /\ DOMAIN attacks = ExpectedAttacks(c)
               /\ \A t \in DOMAIN attacks : attacks[t] = AttackNew(CardDef[c].power)

\* a card that may block an attacker: the attacker is declared, the card is an
\* untapped creature on the battlefield controlled by the player the attacker
\* attacks, and it has Flying or Reach if the attacker has Flying
LegalBlocker(g, b, a) ==
    /\ a \in get_attackers(g)
    /\ b \in DOMAIN g.cards
    /\ CardDef[b].kind = "Creature"
    /\ g.cards[b].zone = "Battlefield"
    /\ ~g.cards[b].tapped
    /\ CardDef[b].owner_id = g.turn.combat.attackers[AttackerIndex(g, a)].target
    /\ "Flying" \in CardDef[a].static_abilities
            => \/ "Flying" \in CardDef[b].static_abilities
               \/ "Reach" \in CardDef[b].static_abilities

\* the legality of LegalBlocker without the demand that the blocker is untapped
LegalBlockerOrTapped(g, b, a) ==
    /\ a \in get_attackers(g)
    /\ b \in DOMAIN g.cards
    /\ CardDef[b].kind = "Creature"
    /\ g.cards[b].zone = "Battlefield"
    /\ CardDef[b].owner_id = g.turn.combat.attackers[AttackerIndex(g, a)].target
    /\ "Flying" \in CardDef[a].static_abilities
            => \/ "Flying" \in CardDef[b].static_abilities
               \/ "Reach" \in CardDef[b].static_abilities

\* C22: declare_blocker adds the blocker to the attacker's blockers if the
\* blocker is an untapped creature on the battlefield controlled by the player
\* the attacker attacks and, for an attacker with Flying, has Flying or Reach;
\* for every other pair of ids it leaves the combat state as it was.
C22_DeclareBlockerLegality ==
    \A b \in Catalogue \cup {0}, a \in Catalogue \cup {0} :
        LET after == declare_blocker(game, b, a).turn.combat
        IN IF LegalBlocker(game, b, a)
           THEN b \in SeqToSet(after.attackers[AttackerIndex(game, a)].blockers)
           ELSE after = game.turn.combat

\* C22 without the demand that the blocker is untapped, which holds
C22_DeclareBlockerLegalityOrTapped ==
    \A b \in Catalogue \cup {0}, a \in Catalogue \cup {0} :
        LET after == declare_blocker(game, b, a).turn.combat
        IN IF LegalBlockerOrTapped(game, b, a)
           THEN b \in SeqToSet(after.attackers[AttackerIndex(game, a)].blockers)
           ELSE after = game.turn.combat

\* the place of the attacker a card blocks, where every blocker blocks one
\* attacker
Blocks(g, b) ==
    CHOOSE i \in DOMAIN g.turn.combat.attackers : b \in SeqToSet(g.turn.combat.attackers[i].blockers)

\* C23: when combat_damage_step_end deals the damage, a blocker that takes at
\* least 1 damage in the passes from an attacker with Deathtouch, and an attacker
\* that takes at least 1 damage from its only blocker when that blocker has
\* Deathtouch, is on the graveyard afterwards, whatever its toughness.
C23_Deathtouch ==
    (InDamageStep /\ is_combat_damage_assigned(game).ok) =>
        LET before == is_combat_damage_assigned(game).g
            dealt == AfterRegularPass(game)
            after == combat_damage_step_end(game)
        IN /\ \A b \in get_blockers(game) \ get_attackers(game) :
                (/\ "Deathtouch" \in CardDef[game.turn.combat.attackers[Blocks(game, b)].id].static_abilities
                 /\ dealt.cards[b].toughness < before.cards[b].toughness)
                    => after.cards[b].zone = "Graveyard"
           /\ \A i \in DOMAIN game.turn.combat.attackers :
                (/\ Len(game.turn.combat.attackers[i].blockers) = 1
                 /\ "Deathtouch" \in CardDef[game.turn.combat.attackers[i].blockers[1]].static_abilities
                 /\ dealt.cards[game.turn.combat.attackers[i].id].toughness
                        < before.cards[game.turn.combat.attackers[i].id].toughness)
                    => after.cards[game.turn.combat.attackers[i].id].zone = "Graveyard"

\* the attackers and blockers of the combat
Combatants(g) == get_attackers(g) \cup get_blockers(g)

C25_OffBattlefieldNoDamage ==
    (InDamageStep /\ is_combat_damage_assigned(game).ok) =>
        LET before == is_combat_damage_assigned(game).g
            first == AfterFirstPass(game)
            regular == AfterRegularPass(game)
            OnBattlefield(c) == before.cards[c].zone = "Battlefield"
            FirstHitters == {b \in get_blockers(game) : StrikesFirst(b) /\ OnBattlefield(b)}
            LastHitters == {b \in get_blockers(game) :
                                StrikesLast(b) /\ OnBattlefield(b) /\ first.cards[b].toughness > 0}
        IN /\ \A c \in Combatants(game) :
                ~OnBattlefield(c) => regular.cards[c].toughness = before.cards[c].toughness
           /\ \A i \in DOMAIN game.turn.combat.attackers :
                LET attacker == game.turn.combat.attackers[i]
                IN /\ OnBattlefield(attacker.id) =>
                        before.cards[attacker.id].toughness - regular.cards[attacker.id].toughness
                            = TotalPower(attacker.blockers, FirstHitters)
                                + TotalPower(attacker.blockers, LastHitters)
                   /\ ~OnBattlefield(attacker.id) =>
                        \A b \in SeqToSet(attacker.blockers) :
                            regular.cards[b].toughness = before.cards[b].toughness

-----------------------------------------------------------------------------
(* Properties of the steps of a turn *)

\* the step is entered with every pool empty and a new priority window of the
\* active player
EnteredClean(g) ==
    /\ \A p \in Players : g.players[p].mana = ManaNew
    /\ g.turn.priority = Some(PriorityNew(g.turn.active_player))

\* C26: entering Upkeep, Draw, Precombat, CombatBegin, CombatEnd, Postcombat or
\* End leaves every player's mana pool empty and a priority window with no
\* passes held by the active player.
C26_StepEntry ==
    /\ \A phase \in ChangeSteps : Enters(phase) => EnteredClean(change_step(game, phase))
    /\ Enters("Draw") => EnteredClean(draw_step(game))

\* the part of C26 that is about the steps entered by change_step
C26_ChangeStepEntry ==
    \A phase \in ChangeSteps : Enters(phase) => EnteredClean(change_step(game, phase))

\* the driver has just entered the declaration of attackers or of blockers
DeclarationEntered ==
    last.op \in {"declare_attackers_step_start", "declare_blockers_step_start"}

\* C27: once declare_attackers_step_start or declare_blockers_step_start has
\* returned, no priority window is open, and none is open after a call of
\* play_card, play_ability, start_resolve, resolve_choice or end_resolve made
\* before the declaration is closed.
C27_NoPriorityMidDeclaration ==
    DeclarationEntered =>
        /\ game.turn.priority = None
        /\ \A card_id \in CardIds, player_id \in Players :
              \A action \in CardActions(card_id, player_id) :
                  play_card(game, card_id, action).g.turn.priority = None
        /\ \A card_id \in AbilityCards, player_id \in Players :
              \A action \in AbilityActions(card_id, player_id) :
                  LET r == play_ability(game, card_id, 0, action)
                  IN ~r.panic => r.g.turn.priority = None
        /\ game.stack # <<>> => start_resolve(game).turn.priority = None
        /\ \A choice \in ResolveChoices : resolve_choice(game, choice).g.turn.priority = None
        /\ IsSome(game.resolve) => end_resolve(game).turn.priority = None

\* the part of C27 that is about the entry: declare_attackers_step_start and
\* declare_blockers_step_start leave no priority window open
C27_EntryClosesPriority == DeclarationEntered => game.turn.priority = None

\* the creatures of a player that are on the battlefield
CreaturesOf(g, player_id) ==
    {c \in DOMAIN g.cards : /\ CardDef[c].kind = "Creature"
                            /\ CardDef[c].owner_id = player_id
                            /\ g.cards[c].zone = "Battlefield"}

\* the action of tapping a card for an ability of its own
TapSelf(c) ==
    [card_id |-> c, player_id |-> CardDef[c].owner_id, choices |-> [cost |-> ChoiceCard(c)]]

\* the first turn of the game, in which the creatures were put on the
\* battlefield: player 1 is active and at most one call was made
EnteringTurn == game.turn.active_player = 1 /\ nops <= 1 /\ last.op # "pass_turn"

\* C28: on the turn it was put on the battlefield a creature without Haste is
\* rejected by can_declare_attacker and cannot pay a tap cost; after the next
\* untap_step of its controller no creature of that player on the battlefield is
\* summoning-sick, tapped before or not, and can_declare_attacker accepts it
\* when it is untapped and has no Defender.
C28_SummoningSickness ==
    /\ EnteringTurn =>
            \A c \in CreaturesOf(game, 1) \cup CreaturesOf(game, 2) :
                "Haste" \notin CardDef[c].static_abilities =>
                    /\ ~can_declare_attacker(game, c)
                    /\ ~valid_cost(TapSelf(c), game, CostTap(TargetSource))
    /\ (last.op = "untap_step" /\ game.turn.active_player = 2) =>
            \A c \in CreaturesOf(game, 2) :
                /\ ~game.cards[c].sick
                /\ (~game.cards[c].tapped /\ "Defender" \notin CardDef[c].static_abilities)
                        => can_declare_attacker(game, c)

\* the part of C28 that is about the entering turn
C28_SickOnEnteringTurn ==
    EnteringTurn =>
        \A c \in CreaturesOf(game, 1) \cup CreaturesOf(game, 2) :
            "Haste" \notin CardDef[c].static_abilities =>
                /\ ~can_declare_attacker(game, c)
                /\ ~valid_cost(TapSelf(c), game, CostTap(TargetSource))

-----------------------------------------------------------------------------
(* Properties of damage dealt to players *)

\* the damage brought the player's life to zero or below and the game is lost
\* by that player, or the player is still alive
LostWhenDead(g, player_id) ==
    g.players[player_id].life <= 0 => g.status = StatusLose(player_id)

\* C29: whenever take_damage or deal_player_damage brings the life of a player
\* to zero or below, also with more damage than the life left, the status of
\* the game is Lose of that player.
C29_LethalDamage ==
    \A player_id \in Players, damage \in 1..MaxHit :
        game.players[player_id].life > 0 =>
            /\ LostWhenDead(take_damage(game, player_id, damage), player_id)
            /\ LostWhenDead(deal_player_damage(game, player_id, damage), player_id)

\* the part of C29 that is about deal_player_damage
C29_DealPlayerDamageLethal ==
    \A player_id \in Players, damage \in 1..MaxHit :
        game.players[player_id].life > 0 =>
            LostWhenDead(deal_player_damage(game, player_id, damage), player_id)

\* the part of C29 that is about take_damage with exactly the life left
C29_TakeDamageExact ==
    \A player_id \in Players :
        game.players[player_id].life \in 1..MaxHit =>
            LostWhenDead(take_damage(game, player_id, game.players[player_id].life), player_id)

-----------------------------------------------------------------------------
(* Properties of paying costs *)

\* the costs of a cost: the members of a conjunction, or the cost itself
CostParts(cost) == IF cost.k = "And" THEN SeqToSet(cost.costs) ELSE {cost}

\* the cards valid_cost validated as the ones to sacrifice
Sacrificed(a, g) ==
    (IF CostSacrifice(TargetSource) \in CostParts(a.required.cost) THEN {a.card_id} ELSE {})
        \cup (IF CostSacrifice(TargetCreature) \in CostParts(a.required.cost)
              THEN {Unwrap(validate_creature(a.choices.cost, g))} ELSE {})

\* the cards valid_cost validated as the ones to tap
Tapped(a) ==
    IF CostTap(TargetSource) \in CostParts(a.required.cost) THEN {a.card_id} ELSE {}

\* pay changed what valid_cost validated and nothing else
PaysAsValidated(a, g, r) ==
    /\ \A c \in DOMAIN g.cards :
        /\ r.g.cards[c].zone # g.cards[c].zone =>
                c \in Sacrificed(a, g) /\ r.g.cards[c].zone = "Graveyard"
        /\ r.g.cards[c].tapped # g.cards[c].tapped =>
                c \in Tapped(a) \cup Sacrificed(a, g)
    /\ r.ok =>
        /\ \A c \in Sacrificed(a, g) : r.g.cards[c].zone = "Graveyard"
        /\ \A c \in Tapped(a) \ Sacrificed(a, g) : r.g.cards[c].tapped

\* C30: for every action that valid accepts, a conjunction cost answered by a
\* conjunction choice included, pay taps only the source validated for the tap
\* cost and puts on the graveyard only the card validated for the sacrifice
\* cost, a battlefield creature of the actor for Sacrifice(Creature); no other
\* card is tapped or changes zone.
C30_PayMatchesValidCost ==
    \A a \in PayActions(game) :
        /\ PaysAsValidated(a, game, pay(a, game))
        /\ CostSacrifice(TargetCreature) \in CostParts(a.required.cost) =>
                LET creature == Unwrap(validate_creature(a.choices.cost, game))
                IN /\ CardDef[creature].kind = "Creature"
                   /\ CardDef[creature].owner_id = a.player_id
                   /\ game.cards[creature].zone = "Battlefield"

\* the part of C30 that is about a cost choice of one card
C30_PayMatchesValidCostOneCard ==
    \A a \in PayActions(game) :
        a.choices.cost.k = "Card" => PaysAsValidated(a, game, pay(a, game))

-----------------------------------------------------------------------------
(* Properties of validation *)

\* the actions a driver builds for play_card and play_ability in a game
SubmittedActions(g) ==
    UNION {CardActions(card_id, player_id) : card_id \in CardIds, player_id \in Players}
        \cup UNION {AbilityActions(card_id, player_id) :
                        card_id \in AbilityCards, player_id \in Players}

-----------------------------------------------------------------------------
(* Properties of the damage assignments *)

\* the attack keeps its books: the power left to spill is not negative, and
\* with the damage assigned to the blockers it adds up to the attacker's power
Accounted(attack) ==
    /\ attack.power.current >= 0
    /\ attack.power.current + MapSum(attack.assignments) = attack.power.default

\* C32: in the combat damage step, for every attacker and each of its attacks,
\* the power left is non-negative and the power left plus the damage assigned
\* to the blockers equals the attacker's power.
C32_DamageAccounting ==
    game.turn.step = "CombatDamage" =>
        \A i \in DOMAIN game.turn.combat.attackers :
            \A t \in DOMAIN game.turn.combat.attackers[i].attacks :
                Accounted(game.turn.combat.attackers[i].attacks[t])

\* the part of C32 that is about combat_damage_step_start and
\* reset_combat_assignments: right after either call the books are kept
C32_AccountedAfterStartAndReset ==
    last.op \in {"combat_damage_step_start", "reset_combat_assignments"} =>
        \A i \in DOMAIN game.turn.combat.attackers :
            \A t \in DOMAIN game.turn.combat.attackers[i].attacks :
                (last.op = "combat_damage_step_start" \/ game.turn.combat.attackers[i].id = last.card)
                    => Accounted(game.turn.combat.attackers[i].attacks[t])

\* C33: in the combat damage step is_combat_damage_assigned leaves the combat
\* as it was, a second call right after the first returns the same result, and
\* once it has returned false combat_damage_step_end called after it, or after
\* a second call of it, deals no damage.
C33_StableGate ==
    InDamageStep =>
        LET once == is_combat_damage_assigned(game)
            twice == is_combat_damage_assigned(once.g)
        IN /\ once.g.turn.combat = game.turn.combat
           /\ twice.ok = once.ok
           /\ ~once.ok => /\ NoDamageDealt(once.g)
                          /\ NoDamageDealt(twice.g)

\* the part of C33 that is about what the gate leaves alone: the cards, the
\* players, and the attackers with their attacks and assignments
C33_GateKeepsAssignments ==
    InDamageStep =>
        LET once == is_combat_damage_assigned(game)
        IN /\ once.g.cards = game.cards
           /\ once.g.players = game.players
           /\ once.g.turn.combat.attackers = game.turn.combat.attackers

-----------------------------------------------------------------------------
(* Properties of the resolving slot *)

\* an entry sits in the resolving slot and waits for a choice
AwaitsChoice(g) == IsSome(g.resolve) /\ IsSome(get_next_resolve_choice(Unwrap(g.resolve)))

\* the cards whose activated ability is a mana ability
ManaAbilityCards == {c \in AbilityCards : CardDef[c].activated_abilities[1].effect.k = "Mana"}

\* C34: while an entry waits in the resolving slot for a choice, start_resolve
\* leaves it there, and after play_ability of a mana ability has returned the
\* same entry with the same effects left is still in the slot.
C34_OneResolvingEntry ==
    AwaitsChoice(game) =>
        /\ game.stack # <<>> => start_resolve(game).resolve = game.resolve
        /\ \A card_id \in ManaAbilityCards, player_id \in Players :
              \A action \in AbilityActions(card_id, player_id) :
                  LET r == play_ability(game, card_id, 0, action)
                  IN (r.ok /\ ~r.panic) => r.g.resolve = game.resolve

\* the part of C34 that is about the stack: the slot is apart from the waiting
\* stack, the entry taken by start_resolve is no longer on it
C34_SlotApartFromStack ==
    IsSome(game.resolve) => \A n \in DOMAIN game.stack : game.stack[n].seq # Unwrap(game.resolve).seq

-----------------------------------------------------------------------------
(* Properties of playing cards *)

\* the mana a cost choice names: the mana of a mana choice, of the first mana
\* choice of a conjunction, none otherwise
ManaChosen(choice) ==
    CASE choice.k = "Mana" -> choice.mana
      [] choice.k = "And" ->
            LET manas == {i \in DOMAIN choice.choices : choice.choices[i].k = "Mana"}
            IN IF manas = {} THEN ManaNew
               ELSE choice.choices[CHOOSE i \in manas : \A j \in manas : i <= j].mana
      [] OTHER -> ManaNew

\* is there a mana cost in the cost
AsksMana(cost) ==
    cost.k = "Mana" \/ (cost.k = "And" /\ \E i \in DOMAIN cost.costs : cost.costs[i].k = "Mana")

\* the pool held the mana chosen and was lowered by exactly it
PaidFromPool(g, h, player_id, mana) ==
    \A c \in Colors :
        /\ g.players[player_id].mana[c] >= mana[c]
        /\ h.players[player_id].mana[c] = g.players[player_id].mana[c] - mana[c]

\* C35: play_card of a card with a mana cost, and play_ability of an ability
\* with a mana cost whose effect is not mana, succeed only if the pool of the
\* actor holds the mana named in the cost choice, and then the pool is lowered
\* by exactly that mana in every colour.
C35_ManaPaidFromPool ==
    /\ \A card_id \in CardIds, player_id \in Players :
          AsksMana(CardDef[card_id].cost) =>
              \A action \in CardActions(card_id, player_id) :
                  LET r == play_card(game, card_id, action)
                  IN r.ok => PaidFromPool(game, r.g, player_id, ManaChosen(action.choices.cost))
    /\ \A card_id \in AbilityCards \ ManaAbilityCards, player_id \in Players :
          AsksMana(CardDef[card_id].activated_abilities[1].cost) =>
              \A action \in AbilityActions(card_id, player_id) :
                  LET r == play_ability(game, card_id, 0, action)
                  IN (r.ok /\ ~r.panic) =>
                        PaidFromPool(game, r.g, action.player_id, ManaChosen(action.choices.cost))

\* the part of C35 that is about a pool that holds the mana: the pool is lowered
\* by exactly the mana chosen
C35_ExactWhenHeld ==
    \A card_id \in CardIds, player_id \in Players :
        AsksMana(CardDef[card_id].cost) =>
            \A action \in CardActions(card_id, player_id) :
                LET r == play_card(game, card_id, action)
                    mana == ManaChosen(action.choices.cost)
                IN (r.ok /\ \A c \in Colors : game.players[player_id].mana[c] >= mana[c]) =>
                        PaidFromPool(game, r.g, player_id, mana)


\* C36: a card is played only from its owner's hand: play_card has no effect on
\* a card that is on the battlefield, in the graveyard, in the library or on the
\* stack, so no card is pushed onto the stack while it has an entry there or
\* put onto the battlefield again.
C36_PlayedFromHandOnly ==
    \A card_id \in CardIds, player_id \in Players :
        \A action \in CardActions(card_id, player_id) :
            game.cards[card_id].zone # "Hand" =>
                LET played == play_card(game, card_id, action)
                IN ~played.ok /\ played.g = game

\* what holds of play_card: a card is played by its owner only, and a played
\* card leaves for the stack, or for the battlefield when it is a land
C36_PlayedByOwner ==
    \A card_id \in CardIds, player_id \in Players :
        \A action \in CardActions(card_id, player_id) :
            LET played == play_card(game, card_id, action)
            IN played.ok =>
                /\ CardDef[card_id].owner_id = player_id
                /\ played.g.cards[card_id].zone =
                        IF CardDef[card_id].kind = "Land" THEN "Battlefield" ELSE "Stack"


-----------------------------------------------------------------------------
(* Properties of resolving *)

\* C37: an effect of the resolving entry is applied at most once between
\* start_resolve and end_resolve: after a singular effect was applied and the
\* completion signalled, a further resolve_choice on the entry deals no damage
\* and draws no card again; the players and the cards stay as they were.
C37_EffectAppliedOnce ==
    \A choice \in ResolveChoices, again \in ResolveChoices :
        (IsSome(game.resolve) /\ Unwrap(game.resolve).effect.k # "And") =>
            LET first == resolve_choice(game, choice)
                further(applied) ==
                    /\ applied.g.players = first.g.players
                    /\ applied.g.cards = first.g.cards
            IN (first.ok /\ first.next = None) => further(resolve_choice(first.g, again))

\* what holds of a sequence: once its last effect was applied, a further
\* resolve_choice on the entry leaves the game as it was
C37_SequenceAppliedOnce ==
    \A choice \in ResolveChoices, again \in ResolveChoices :
        (IsSome(game.resolve) /\ Unwrap(game.resolve).effect.k = "And") =>
            LET first == resolve_choice(game, choice)
                further(applied) == applied.ok /\ applied.g = first.g
            IN (first.ok /\ Unwrap(first.g.resolve).effect.effects = <<>>) =>
                    further(resolve_choice(first.g, again))


\* the largest number of cards a Discard asks for
MaxDiscard == 2

\* the choices a driver answers a Discard with: one card, or a list of up to
\* MaxDiscard cards, where a card may be named more than once
DiscardChoices ==
    {ChoiceCard(c) : c \in CardIds}
        \cup {ChoiceAnd(<<ChoiceCard(c)>>) : c \in CardIds}
        \cup {ChoiceAnd(<<ChoiceCard(c), ChoiceCard(d)>>) : c \in CardIds, d \in CardIds}

\* the cards a choice names
Named(choice) ==
    IF choice.k = "Card" THEN {choice.id}
    ELSE {choice.choices[i].id : i \in 1..Len(choice.choices)}

\* between g and h exactly n cards changed their zone, each from the hand of
\* the player to the graveyard
Discarded(g, h, player_id, n) ==
    LET moved == {c \in CardIds : h.cards[c].zone # g.cards[c].zone}
    IN /\ Cardinality(moved) = n
       /\ \A c \in moved : /\ g.cards[c].zone = "Hand"
                           /\ CardDef[c].owner_id = player_id
                           /\ h.cards[c].zone = "Graveyard"

\* C38: resolving Discard(n) with an accepted choice moves exactly n distinct
\* cards from the hand of the discarding player to the graveyard; a choice that
\* names one card more than once is not accepted as n cards.
C38_DiscardMovesExactlyN ==
    \A n \in 1..MaxDiscard, player_id \in Players, choice \in DiscardChoices :
        LET r == [choice |-> choice, player_id |-> player_id, effect |-> EffectDiscard(n)]
            resolved == resolve_effect(game, EffectDiscard(n),
                                       CardAction(Rummage, player_id), r)
        IN resolved.ok => Discarded(game, resolved.g, player_id, n)

\* what holds of Discard: an accepted choice names n cards in the list, each in
\* the hand of the discarding player, and the cards named, and no other, go to
\* the graveyard
C38_NamedCardsDiscarded ==
    \A n \in 1..MaxDiscard, player_id \in Players, choice \in DiscardChoices :
        LET r == [choice |-> choice, player_id |-> player_id, effect |-> EffectDiscard(n)]
            resolved == resolve_effect(game, EffectDiscard(n),
                                       CardAction(Rummage, player_id), r)
        IN resolved.ok =>
            /\ (choice.k = "And" => Len(choice.choices) = n)
            /\ Discarded(game, resolved.g, player_id, Cardinality(Named(choice)))
            /\ \A c \in Named(choice) : resolved.g.cards[c].zone = "Graveyard"


-----------------------------------------------------------------------------
(* Properties of the declared blockers *)

\* the attackers a card blocks in a game
BlockedBy(g, b) ==
    {i \in DOMAIN g.turn.combat.attackers :
        b \in SeqToSet(g.turn.combat.attackers[i].blockers)}

\* C39: a creature is a blocker of at most one attacker: declare_blocker never
\* adds a creature that blocks another attacker already.
C39_BlocksOneAttacker ==
    \A attacker_id \in get_attackers(game), blocker_id \in DOMAIN game.cards :
        \A b \in DOMAIN game.cards :
            Cardinality(BlockedBy(declare_blocker(game, blocker_id, attacker_id), b)) <= 1

\* what holds of declare_blocker: a creature that blocks no attacker blocks at
\* most the attacker named afterwards, and no other blocker is touched
C39_FirstDeclarationBlocksOne ==
    \A attacker_id \in get_attackers(game), blocker_id \in DOMAIN game.cards :
        LET after == declare_blocker(game, blocker_id, attacker_id)
        IN /\ BlockedBy(game, blocker_id) = {} =>
                    BlockedBy(after, blocker_id) \subseteq {AttackerIndex(game, attacker_id)}
           /\ \A b \in DOMAIN game.cards \ {blocker_id} :
                    BlockedBy(after, b) = BlockedBy(game, b)


-----------------------------------------------------------------------------
(* Properties of the damage dealt to the defending player *)

\* C40: combat damage never raises the life of a player: after any calls of
\* reset_combat_assignments and assign_combat_damage, combat_damage_step_end
\* leaves every player with at most the life the player had.
C40_CombatNeverRaisesLife ==
    InDamageStep =>
        \A p \in Players : combat_damage_step_end(game).players[p].life <= game.players[p].life

\* what holds of the damage step: while the power left of every attack is not
\* negative, combat_damage_step_end raises no life
C40_NoRaiseWithPowerLeft ==
    (/\ InDamageStep
     /\ \A i \in DOMAIN game.turn.combat.attackers :
            \A t \in DOMAIN game.turn.combat.attackers[i].attacks :
                game.turn.combat.attackers[i].attacks[t].power.current >= 0) =>
        \A p \in Players : combat_damage_step_end(game).players[p].life <= game.players[p].life

=============================================================================
